---------------------------- MODULE Spec2Model ----------------------------
(***************************************************************************)
(* Model of the narrative-to-model extraction engine:                      *)
(*   - the canonicalization layer (scripts/normalize_components.py and     *)
(*     scripts/normalization_config_loader.py),                            *)
(*   - the registries of the diagram extractors (uml_extractors.py).       *)
(*                                                                         *)
(* Text is modelled at the level of word tokens.  A name is a sequence of  *)
(* tokens; a token carries its lower-case spelling (w), its letter case    *)
(* (c) and the number of blanks that precede it in the string (sp).        *)
(***************************************************************************)
EXTENDS Naturals, Integers, Sequences, FiniteSets, TLC

VARIABLES
    \* ---- canonicalization (normalize_components.py) ----
    nName,        \* the raw name handed to normalize_*
    nCat,         \* the category of the normalize_* function called
    nCfg,         \* the loaded NormalizationConfig (global _config_instance)
    nOut,         \* result of normalize_*(nName)
    nOut2,        \* result of normalize_*(nOut)
    nTiers,       \* the tiers consulted by the first call, in order
    nPc,          \* "idle" | "start" | "once" | "twice" | "config"
    nErr,         \* the exception the last call raised, "" if it returned
    \* ---- the configuration (normalization_config_loader.py) ----
    cfgFile,      \* normalization_config.json on disk
    cfgObj,       \* _config_instance: 0 for None, else the serial number of
                  \* the NormalizationConfig object it holds (nCfg is its
                  \* content, read only while cfgObj > 0)
    cfgMade,      \* number of NormalizationConfig objects constructed
    cfgLog,       \* the get_config() and reload_config() calls that returned
    \* ---- the entity overlay (_process_text) ----
    ovDoc,        \* the parser's Doc: token boundaries and doc.ents
    ovSpans,      \* ner_doc.ents, the spans of the tagger
    ovPc,         \* "idle" | "start" | "base" | "component"
    \* ---- concurrent runs, each on an extractor instance of its own ----
    pipe_names,   \* nlp.pipe_names of the model object the caller passes in
    conc,         \* the runs: position, narration, instance, result
    store,        \* the attributes of the extractor instances
    \* ---- an extractor instance (uml_extractors.py) ----
    kind,         \* the extractor class of the instance, "none" if there is none
    input,        \* the argument of extract(): stories_list or the narration
    pc,           \* position inside extract(); "idle" between calls
    idx,          \* number of stories of stories_list already processed
    returned,     \* the lists returned by the extract() calls so far
    hashSeed,     \* the hash seed of the process, fixed when it starts
    tech_mappings, \* what __init__ read from technology_mappings.json
    model_elements,
    found_classes,
    found_relationships,
    components,
    external_systems,
    relationships,
    interfaces,
    packages,
    ports,
    nodes,
    artifacts,
    devices,
    environments,
    deployment_relationships

cfgVars == <<nErr, cfgFile, cfgObj, cfgMade, cfgLog>>
ovVars == <<ovDoc, ovSpans, ovPc>>
concVars == <<pipe_names, conc, store>>
normVars == <<nName, nCat, nCfg, nOut, nOut2, nTiers, nPc, cfgVars, ovVars,
              concVars>>

ctlVars == <<kind, input, pc, idx, returned, hashSeed, tech_mappings>>
baseVars == <<model_elements, found_classes, found_relationships>>
compVars == <<components, external_systems, relationships, interfaces,
              packages, ports>>
deplVars == <<nodes, artifacts, devices, environments,
              deployment_relationships>>

vars == <<normVars, ctlVars, baseVars, compVars, deplVars>>

\* Python's None and '' where a name is expected: both are falsy, and the
\* callers only test the truth value
NoName == <<>>

\* a local variable assigned once: Let(e, LAMBDA x : b) is b with x standing
\* for the value of e
Let(v, Body(_)) == Body(v)

Min(S) == CHOOSE x \in S : \A y \in S : x <= y

RECURSIVE SumSeq(_)
SumSeq(s) == IF s = <<>> THEN 0 ELSE Head(s) + SumSeq(Tail(s))

(***************************************************************************)
(* Tokens                                                                  *)
(***************************************************************************)
Tok(w, c, sp) == [w |-> w, c |-> c, sp |-> sp]
Lw(w) == Tok(w, "lower", 1)
\* words whose str.title() and str.upper() spell the same string
TitleIsUpper == {"a", "s3", "k8s"}
TitleCase(w) == IF w \in TitleIsUpper THEN "upper" ELSE "title"
Ti(w) == Tok(w, TitleCase(w), 1)
Up(w) == Tok(w, "upper", 1)
Br(w) == Tok(w, "brand", 1)    \* a fixed mixed-case spelling: PostgreSQL, gRPC

\* number of characters of each word of the vocabulary
WordLen == [ the |-> 3, a |-> 1, an |-> 2, and |-> 3, via |-> 3, through |-> 7,
             in |-> 2, on |-> 2, external |-> 8, stripe |-> 6, payment |-> 7,
             gateway |-> 7, paypal |-> 6, postgresql |-> 10, postgres |-> 8,
             database |-> 8, db |-> 2, mysql |-> 5, mongo |-> 5, mongodb |-> 7,
             redis |-> 5, cache |-> 5, backend |-> 7, service |-> 7,
             services |-> 8, api |-> 3, rest |-> 4, restful |-> 7,
             graphql |-> 7, server |-> 6, servers |-> 7, docker |-> 6,
             container |-> 9, containers |-> 10, kubernetes |-> 10, pod |-> 3,
             pods |-> 4, cluster |-> 7, linux |-> 5, instance |-> 8,
             instances |-> 9, web |-> 3, browser |-> 7, browsers |-> 8,
             mobile |-> 6, desktop |-> 7, device |-> 6, devices |-> 7,
             application |-> 11, applications |-> 12, smartphone |-> 10,
             smartphones |-> 11, client |-> 6, clients |-> 7, computer |-> 8,
             computers |-> 9, k8s |-> 3, endpoint |-> 8, endpoints |-> 9,
             grpc |-> 4, twilio |-> 6, widget |-> 6, production |-> 10,
             prod |-> 4, tablet |-> 6, soap |-> 4, sendgrid |-> 8, s3 |-> 2,
             aws |-> 3, lambda |-> 6, queue |-> 5, message |-> 7, vm |-> 2,
             virtual |-> 7, machine |-> 7 ]

\* str.lower() of a name: every token in lower case, blanks untouched
LowerName(name) == [i \in DOMAIN name |-> [name[i] EXCEPT !.c = "lower"]]

\* the words of a name (what a case-insensitive regex sees)
Words(name) == [i \in DOMAIN name |-> name[i].w]

\* len() of the string a token sequence spells, from its first character
CharLen(name) ==
    IF name = <<>> THEN 0
    ELSE SumSeq([i \in DOMAIN name |->
                   WordLen[name[i].w] + (IF i = 1 THEN 0 ELSE name[i].sp)])


(***************************************************************************)
(* Hardcoded canonical tables.  A regular expression of the tables is a    *)
(* sequence of parts; a part is a set of alternative word sequences and    *)
(* may be optional.  Word-internal optional suffixes, such as browser(s)?, *)
(* are written out as alternatives.                                        *)
(***************************************************************************)
Req(alts) == [opt |-> FALSE, alts |-> alts]
Opt(alts) == [opt |-> TRUE, alts |-> alts]
Pat(parts, canon) == [parts |-> parts, canon |-> canon]

CANONICAL_COMPONENTS == <<
    Pat(<<Opt({<<"external">>}), Req({<<"stripe">>}), Opt({<<"payment">>}),
          Opt({<<"gateway">>})>>, <<Ti("stripe"), Ti("gateway")>>),
    Pat(<<Opt({<<"external">>}), Req({<<"paypal">>}), Opt({<<"payment">>}),
          Opt({<<"gateway">>})>>, <<Br("paypal")>>),
    Pat(<<Opt({<<"a">>, <<"the">>}), Req({<<"postgresql">>}),
          Opt({<<"database">>, <<"db">>})>>, <<Br("postgresql")>>),
    Pat(<<Opt({<<"a">>, <<"the">>}), Req({<<"postgres">>}),
          Opt({<<"database">>, <<"db">>})>>, <<Br("postgresql")>>),
    Pat(<<Opt({<<"a">>, <<"the">>}), Req({<<"mysql">>}),
          Opt({<<"database">>, <<"db">>})>>, <<Br("mysql")>>),
    Pat(<<Opt({<<"a">>, <<"the">>}), Req({<<"mongo">>, <<"mongodb">>}),
          Opt({<<"database">>, <<"db">>})>>, <<Br("mongodb")>>),
    Pat(<<Req({<<"redis">>}), Opt({<<"cache">>, <<"db">>})>>, <<Ti("redis")>>),
    Pat(<<Req({<<"backend">>}),
          Opt({<<"service">>, <<"services">>, <<"api">>})>>,
        <<Ti("backend"), Ti("service")>>),
    Pat(<<Req({<<"rest">>, <<"restful">>}), Opt({<<"api">>})>>,
        <<Up("rest"), Up("api")>>),
    Pat(<<Req({<<"graphql">>}), Opt({<<"api">>})>>,
        <<Br("graphql"), Up("api")>>) >>

CANONICAL_NODES == <<
    Pat(<<Opt({<<"a">>, <<"the">>}), Req({<<"postgresql">>}),
          Opt({<<"database">>, <<"db">>, <<"server">>})>>, <<Br("postgresql")>>),
    Pat(<<Opt({<<"a">>, <<"the">>}), Req({<<"postgres">>}),
          Opt({<<"database">>, <<"db">>, <<"server">>})>>, <<Br("postgresql")>>),
    Pat(<<Opt({<<"a">>, <<"the">>}), Req({<<"mysql">>}),
          Opt({<<"database">>, <<"db">>, <<"server">>})>>, <<Br("mysql")>>),
    Pat(<<Opt({<<"a">>, <<"the">>}), Req({<<"mongo">>, <<"mongodb">>}),
          Opt({<<"database">>, <<"db">>, <<"server">>})>>, <<Br("mongodb")>>),
    Pat(<<Opt({<<"in">>, <<"on">>}), Req({<<"docker">>}),
          Req({<<"container">>, <<"containers">>})>>,
        <<Ti("docker"), Ti("container")>>),
    Pat(<<Req({<<"kubernetes">>}),
          Opt({<<"pod">>, <<"pods">>, <<"cluster">>})>>, <<Ti("kubernetes")>>),
    Pat(<<Req({<<"linux">>}), Req({<<"server">>, <<"servers">>})>>,
        <<Ti("linux"), Ti("server")>>),
    Pat(<<Req({<<"server">>, <<"servers">>, <<"server", "instance">>,
               <<"server", "instances">>})>>, <<Ti("server")>>) >>

CANONICAL_DEVICES == <<
    Pat(<<Opt({<<"via">>, <<"through">>}), Req({<<"web">>}),
          Req({<<"browser">>, <<"browsers">>})>>, <<Ti("web"), Ti("browser")>>),
    Pat(<<Opt({<<"via">>, <<"through">>}), Req({<<"mobile">>}),
          Req({<<"browser">>, <<"browsers">>})>>,
        <<Ti("mobile"), Ti("browser")>>),
    Pat(<<Opt({<<"via">>, <<"through">>}), Req({<<"desktop">>}),
          Req({<<"browser">>, <<"browsers">>})>>, <<Ti("web"), Ti("browser")>>),
    Pat(<<Req({<<"browser">>, <<"browsers">>})>>, <<Ti("web"), Ti("browser")>>),
    Pat(<<Opt({<<"and">>, <<"via">>}), Req({<<"mobile">>}),
          Req({<<"device">>, <<"devices">>, <<"application">>,
               <<"applications">>})>>, <<Ti("mobile"), Ti("device")>>),
    Pat(<<Req({<<"smartphone">>, <<"smartphones">>})>>, <<Ti("smartphone")>>),
    Pat(<<Req({<<"desktop">>}),
          Req({<<"client">>, <<"clients">>, <<"computer">>, <<"computers">>})>>,
        <<Ti("desktop")>>) >>

CANONICAL_ENVIRONMENTS == <<
    Pat(<<Req({<<"docker">>}), Opt({<<"container">>})>>, <<Ti("docker")>>),
    Pat(<<Req({<<"kubernetes">>})>>, <<Ti("kubernetes")>>),
    Pat(<<Req({<<"k8s">>})>>, <<Ti("kubernetes")>>) >>

CANONICAL_INTERFACES == <<
    Pat(<<Req({<<"rest">>}),
          Opt({<<"api">>, <<"endpoint">>, <<"endpoints">>})>>,
        <<Up("rest"), Up("api")>>),
    Pat(<<Req({<<"graphql">>}), Opt({<<"api">>, <<"endpoint">>})>>,
        <<Br("graphql"), Up("api")>>),
    Pat(<<Req({<<"grpc">>}), Opt({<<"service">>})>>, <<Br("grpc")>>) >>

CANONICAL_EXTERNAL_SYSTEMS == <<
    Pat(<<Req({<<"stripe">>})>>, <<Ti("stripe")>>),
    Pat(<<Req({<<"paypal">>})>>, <<Br("paypal")>>),
    Pat(<<Req({<<"twilio">>})>>, <<Ti("twilio")>>) >>

Categories == {"components", "nodes", "devices", "environments",
               "interfaces", "external_systems"}

HardTable(cat) ==
    CASE cat = "components" -> CANONICAL_COMPONENTS
      [] cat = "nodes" -> CANONICAL_NODES
      [] cat = "devices" -> CANONICAL_DEVICES
      [] cat = "environments" -> CANONICAL_ENVIRONMENTS
      [] cat = "interfaces" -> CANONICAL_INTERFACES
      [] cat = "external_systems" -> CANONICAL_EXTERNAL_SYSTEMS

\* the word sequences a table expression matches
RECURSIVE Lang(_)
Lang(parts) ==
    IF parts = <<>> THEN {<<>>}
    ELSE     Let(Head(parts), LAMBDA h :
             Let(h.alts \cup (IF h.opt THEN {<<>>} ELSE {}), LAMBDA first :
             {a \o r : a \in first, r \in Lang(Tail(parts))}))

\* the word sequence l occurs in ws at token position i
OccursAt(l, ws, i) ==
    /\ l # <<>>
    /\ i + Len(l) - 1 <= Len(ws)
    /\ SubSeq(ws, i, i + Len(l) - 1) = l

\* re.search(pattern, name_lower, re.IGNORECASE) finds a match
HardSearch(parts, name) ==
    \E l \in Lang(parts) : \E i \in 1..Len(name) : OccursAt(l, Words(name), i)

\* _apply_canonical_map: the table is walked in order, the first hit returns
RECURSIVE ApplyFrom(_, _, _)
ApplyFrom(name, mapping, i) ==
    IF i > Len(mapping) THEN NoName
    ELSE IF HardSearch(mapping[i].parts, LowerName(name)) THEN mapping[i].canon
    ELSE ApplyFrom(name, mapping, i + 1)

\* a plausible slip: the table is walked to its end and the last hit is kept
RECURSIVE ApplyLastFrom(_, _, _)
ApplyLastFrom(name, mapping, i) ==
    IF i < 1 THEN NoName
    ELSE IF HardSearch(mapping[i].parts, LowerName(name)) THEN mapping[i].canon
    ELSE ApplyLastFrom(name, mapping, i - 1)

ApplyCanonicalMapLast(name, mapping) == ApplyLastFrom(name, mapping, Len(mapping))

ApplyCanonicalMap(name, mapping) == ApplyFrom(name, mapping, 1)


(***************************************************************************)
(* NormalizationConfig: the loaded normalization_config.json.              *)
(* rules[cat] = [enabled, pats]; a pat is one canonical key of the file:   *)
(* key (its words, split at '_'), on (the enabled flag of its group, used  *)
(* by component/node/device rules) and variants (the list of variants).    *)
(***************************************************************************)
GroupedCategories == {"components", "nodes", "devices"}

\* canonical_name of a key, per _build_patterns_for_*
CanonicalName(cat, key) ==
    CASE cat = "environments" ->
            IF Len(key) > 1 THEN [i \in DOMAIN key |-> Ti(key[i])]
            ELSE [i \in DOMAIN key |-> Up(key[i])]
      [] cat = "external_systems" ->
            IF key = <<"aws", "s3">> THEN <<Up("aws"), Up("s3")>>
            ELSE IF key = <<"aws", "lambda">> THEN <<Up("aws"), Ti("lambda")>>
            ELSE [i \in DOMAIN key |-> Ti(key[i])]
      [] OTHER -> [i \in DOMAIN key |-> Ti(key[i])]

\* patterns[pattern] = canonical_name on a dict: a pattern string seen before
\* keeps its place and takes the new value
DictPut(d, variants, canon) ==
    IF \E i \in DOMAIN d : d[i].variants = variants
    THEN [i \in DOMAIN d |->
            IF d[i].variants = variants THEN [d[i] EXCEPT !.canon = canon]
            ELSE d[i]]
    ELSE Append(d, [variants |-> variants, canon |-> canon])

RECURSIVE BuildFrom(_, _, _, _)
BuildFrom(cat, pats, i, acc) ==
    IF i > Len(pats) THEN acc
    ELSE     Let(pats[i], LAMBDA p :
             Let(\/ (cat \in GroupedCategories /\ ~p.on)
                 \/ p.variants = <<>>, LAMBDA skip :
             BuildFrom(cat, pats, i + 1,
                 IF skip THEN acc
                 ELSE DictPut(acc, p.variants, CanonicalName(cat, p.key)))))

\* _build_pattern_cache / self._compiled_patterns.get(category, {})
CompiledPatterns(cfg, cat) ==
    IF ~cfg.enabled \/ ~cfg.rules[cat].enabled THEN <<>>
    ELSE BuildFrom(cat, cfg.rules[cat].pats, 1, <<>>)

\* the literal variant v matches the text at token position i
VariantAt(v, text, i, caseSensitive) ==
    /\ v # <<>>
    /\ i + Len(v) - 1 <= Len(text)
    /\ \A k \in 1..Len(v) :
          /\ text[i + k - 1].w = v[k].w
          /\ caseSensitive => text[i + k - 1].c = v[k].c
          /\ k > 1 => text[i + k - 1].sp = v[k].sp

\* re.search(r'\b(?:v1|v2|..)\b', text): the leftmost position, and there the
\* first alternative that matches; the match length in characters, 0 for no match
ConfigSearch(variants, text, caseSensitive) ==
        Let({i \in 1..Len(text) :
               \E k \in DOMAIN variants :
                   VariantAt(variants[k], text, i, caseSensitive)}, LAMBDA pos :
        IF pos = {} THEN 0
        ELSE     Let(Min(pos), LAMBDA i :
                 Let(Min({j \in DOMAIN variants :
                            VariantAt(variants[j], text, i, caseSensitive)}), LAMBDA k :
                 CharLen(variants[k]))))

\* the (match_length, canonical) list collected by apply_patterns
ConfigMatches(cfg, text, cat) ==
        Let(CompiledPatterns(cfg, cat), LAMBDA pats :
    LET hit(i) == ConfigSearch(pats[i].variants, text, cfg.case_sensitive)
        RECURSIVE Collect(_)
        Collect(i) ==
            IF i > Len(pats) THEN <<>>
            ELSE IF hit(i) = 0 THEN Collect(i + 1)
            ELSE <<[len |-> hit(i), canon |-> pats[i].canon]>> \o Collect(i + 1)
    IN  Collect(1))

\* a plausible slip: the first collected match is returned, as the fixed table does
FirstCollected(matches) == matches[1].canon

\* matches.sort(key=match_length, reverse=True)[0]: the sort is stable, so the
\* first entry is the earliest of the longest matches
LongestFirst(matches) ==
        Let(Min({i \in DOMAIN matches :
                   \A j \in DOMAIN matches : matches[j].len <= matches[i].len}), LAMBDA best :
        matches[best].canon)

\* NormalizationConfig.apply_patterns
ApplyPatterns(cfg, text, cat) ==
    IF ~cfg.apply_patterns THEN NoName
    ELSE IF CompiledPatterns(cfg, cat) = <<>> THEN NoName
    ELSE     Let(IF cfg.case_sensitive THEN text ELSE LowerName(text), LAMBDA t :
             Let(ConfigMatches(cfg, t, cat), LAMBDA matches :
             IF matches = <<>> THEN NoName ELSE LongestFirst(matches)))

(***************************************************************************)
(* _clean_text                                                             *)
(***************************************************************************)
\* str.strip(): the string starts at its first token
Strip(name) ==
    IF name = <<>> THEN name
    ELSE [i \in DOMAIN name |-> IF i = 1 THEN [name[i] EXCEPT !.sp = 1] ELSE name[i]]

\* re.sub(r'^(w1|w2|..)\s+', '', text, flags=re.IGNORECASE)
DropLeading(name, ws) ==
    IF Len(name) >= 2 /\ name[1].w \in ws THEN Strip(Tail(name)) ELSE name

\* re.sub(r'\s+and$', '', text, flags=re.IGNORECASE)
DropTrailingAnd(name) ==
    IF Len(name) >= 2 /\ name[Len(name)].w = "and"
    THEN SubSeq(name, 1, Len(name) - 1) ELSE name

RemoveArticles(name) ==
    DropLeading(DropTrailingAnd(DropLeading(DropLeading(name,
        {"the", "a", "an"}), {"and"})), {"via", "through", "in", "on"})

\* re.sub(r'\s+', ' ', text)
NormalizeWhitespace(name) == [i \in DOMAIN name |-> [name[i] EXCEPT !.sp = 1]]

\* str.title()
TitleName(name) ==
    [i \in DOMAIN name |-> [name[i] EXCEPT !.c = TitleCase(name[i].w)]]

CleanText(text, cfg) ==
    IF text = <<>> THEN <<>>
    ELSE     Let(Strip(text), LAMBDA t1 :
             Let(IF cfg.remove_articles THEN RemoveArticles(t1) ELSE t1, LAMBDA t2 :
             Let(IF cfg.normalize_whitespace THEN NormalizeWhitespace(t2) ELSE t2, LAMBDA t3 :
             Let(IF cfg.apply_title_case THEN TitleName(t3) ELSE t3, LAMBDA t4 :
             Strip(t4)))))

(***************************************************************************)
(* normalize_component_name, normalize_node_name, ... : the six functions  *)
(* are the same three tiers over their own table and category.  The result *)
(* carries the tiers that were consulted, in order.                        *)
(***************************************************************************)
\* a plausible slip: the configuration tier is asked before the fixed table
NormalizeConfigFirst(name, cat, cfg) ==
    IF name = <<>> THEN [out |-> <<>>, tiers |-> <<>>]
    ELSE     Let(IF cfg.enabled /\ cfg.apply_patterns
                 THEN ApplyPatterns(cfg, name, cat) ELSE NoName, LAMBDA c :
             IF c # NoName THEN [out |-> c, tiers |-> <<"config">>]
             ELSE     Let(ApplyCanonicalMap(name, HardTable(cat)), LAMBDA hard :
                      IF hard # NoName
                      THEN [out |-> hard, tiers |-> <<"config", "hard">>]
                      ELSE [out |-> CleanText(name, cfg),
                            tiers |-> <<"config", "hard", "clean">>]))

Normalize(name, cat, cfg) ==
    IF name = <<>> THEN [out |-> <<>>, tiers |-> <<>>]
    ELSE     Let(ApplyCanonicalMap(name, HardTable(cat)), LAMBDA hard :
             IF hard # NoName THEN [out |-> hard, tiers |-> <<"hard">>]
             ELSE IF cfg.enabled /\ cfg.apply_patterns
             THEN     Let(ApplyPatterns(cfg, name, cat), LAMBDA c :
                      IF c # NoName
                      THEN [out |-> c, tiers |-> <<"hard", "config">>]
                      ELSE [out |-> CleanText(name, cfg),
                            tiers |-> <<"hard", "config", "clean">>])
             ELSE [out |-> CleanText(name, cfg), tiers |-> <<"hard", "clean">>])

normalize_component_name(name, cfg) == Normalize(name, "components", cfg).out
normalize_node_name(name, cfg) == Normalize(name, "nodes", cfg).out
normalize_device_name(name, cfg) == Normalize(name, "devices", cfg).out
normalize_environment_name(name, cfg) == Normalize(name, "environments", cfg).out
normalize_interface(name, cfg) == Normalize(name, "interfaces", cfg).out
normalize_external_system(name, cfg) == Normalize(name, "external_systems", cfg).out


(***************************************************************************)
(* Inputs of the canonicalization calls                                    *)
(***************************************************************************)
MaxNameLen == 3

BSeq(S, n) == UNION {[1..k -> S] : k \in 0..n}

\* the tokens raw names are built from, per category
InTokens(cat) ==
    CASE cat = "components" ->
            {Lw("the"), Lw("and"), Lw("stripe"), Lw("gateway"), Lw("api"),
             Tok("gateway", "lower", 2)}
      [] cat = "nodes" ->
            {Lw("the"), Lw("in"), Lw("linux"), Lw("server"), Lw("vm"),
             Ti("vm")}
      [] cat = "devices" ->
            {Lw("via"), Lw("and"), Lw("mobile"), Lw("browser"), Lw("device"),
             Lw("tablet")}
      [] cat = "environments" ->
            {Lw("the"), Lw("on"), Lw("docker"), Lw("container"), Lw("prod"),
             Ti("prod")}
      [] cat = "interfaces" ->
            {Lw("the"), Lw("a"), Lw("rest"), Lw("endpoint"), Lw("soap"),
             Tok("endpoint", "lower", 2)}
      [] cat = "external_systems" ->
            {Lw("the"), Lw("external"), Lw("stripe"), Lw("aws"), Lw("s3"),
             Lw("sendgrid")}

\* raw names are stripped strings
RawNames(cat) ==
    {n \in BSeq(InTokens(cat), MaxNameLen) : n = <<>> \/ n[1].sp = 1}

Rule(key, on, variants) == [key |-> key, on |-> on, variants |-> variants]

\* the rule sets of a normalization_config.json
FileRules ==
    [ components |-> [enabled |-> TRUE, pats |-> <<
          Rule(<<"gateway">>, TRUE, << <<Lw("gateway")>> >>),
          Rule(<<"api", "gateway">>, TRUE, << <<Lw("api"), Lw("gateway")>> >>),
          Rule(<<"stripe", "api">>, TRUE, << <<Lw("stripe"), Lw("api")>> >>),
          Rule(<<"api", "service">>, FALSE, << <<Lw("api")>> >>) >>],
      nodes |-> [enabled |-> TRUE, pats |-> <<
          Rule(<<"virtual", "machine">>, TRUE, << <<Lw("vm")>> >>),
          Rule(<<"linux", "vm">>, TRUE, << <<Lw("linux"), Lw("vm")>> >>) >>],
      devices |-> [enabled |-> TRUE, pats |-> <<
          Rule(<<"tablet">>, TRUE,
               << <<Lw("tablet")>>, <<Lw("mobile"), Lw("tablet")>> >>),
          Rule(<<"mobile", "tablet">>, TRUE,
               << <<Lw("mobile"), Lw("tablet")>> >>) >>],
      environments |-> [enabled |-> TRUE, pats |-> <<
          Rule(<<"production">>, TRUE, << <<Lw("prod")>> >>),
          Rule(<<"on", "prod">>, TRUE, << <<Lw("on"), Lw("prod")>> >>) >>],
      interfaces |-> [enabled |-> TRUE, pats |-> <<
          Rule(<<"soap", "api">>, TRUE, << <<Lw("soap")>> >>),
          Rule(<<"soap", "endpoint">>, TRUE,
               << <<Lw("soap"), Lw("endpoint")>> >>) >>],
      external_systems |-> [enabled |-> TRUE, pats |-> <<
          Rule(<<"sendgrid">>, TRUE, << <<Lw("sendgrid")>> >>),
          Rule(<<"aws", "s3">>, TRUE, << <<Lw("s3")>>, <<Lw("aws"), Lw("s3")>> >>),
          Rule(<<"aws", "lambda">>, TRUE, << <<Lw("aws")>> >>),
          Rule(<<"empty">>, TRUE, <<>>) >>] ]

\* deduplication.cross_collection_deduplication.rules of the file
CrossCollectionRules ==
    << [patterns |-> << <<"b", "r", "o", "w", "s", "e", "r">> >>, preferred |-> "devices"],
       [patterns |-> << <<"m", "o", "b", "i", "l", "e">> >>, preferred |-> "nodes"] >>

\* a file with one rule that prefers the nodes collection
NodeRules ==
    << [patterns |-> << <<"w", "e", "b">> >>, preferred |-> "nodes"] >>

\* the rule tables a normalization_config.json can hold
CrossRuleSets == {CrossCollectionRules, NodeRules, <<>>}

DefaultConfig ==
    [ enabled |-> TRUE, remove_articles |-> TRUE, normalize_whitespace |-> TRUE,
      apply_title_case |-> TRUE, apply_patterns |-> TRUE,
      case_sensitive |-> FALSE, rules |-> FileRules,
      cross_collection_rules |-> CrossCollectionRules ]

\* the configuration files the model loads
Configs ==
    { DefaultConfig,
      [DefaultConfig EXCEPT !.enabled = FALSE],
      [DefaultConfig EXCEPT !.apply_patterns = FALSE],
      [DefaultConfig EXCEPT !.case_sensitive = TRUE],
      [DefaultConfig EXCEPT !.remove_articles = FALSE,
                            !.normalize_whitespace = FALSE,
                            !.apply_title_case = FALSE] }

(***************************************************************************)
(* Specification of the canonicalization calls                             *)
(***************************************************************************)
\* no technology_mappings.json has been read
NoMappings ==
    [loaded |-> FALSE, stereotypes |-> <<>>, node_keywords |-> <<>>,
     device_keywords |-> <<>>]

\* no text is being processed
NoOverlay ==
    /\ ovDoc = [len |-> 0, cuts |-> {}, parser_ents |-> {}, ents |-> {}]
    /\ ovSpans = <<>>
    /\ ovPc = "idle"

\* no concurrent runs
NoRuns ==
    /\ pipe_names = <<>>
    /\ conc = <<>>
    /\ store = <<>>

\* no extractor instance has been constructed
NoExtractor ==
    /\ kind = "none"
    /\ input = <<>>
    /\ pc = "idle"
    /\ idx = 0
    /\ returned = <<>>
    /\ hashSeed = 0
    /\ tech_mappings = NoMappings
    /\ model_elements = <<>>
    /\ found_classes = <<>>
    /\ found_relationships = {}
    /\ components = <<>>
    /\ external_systems = {}
    /\ relationships = <<>>
    /\ interfaces = <<>>
    /\ packages = <<>>
    /\ ports = <<>>
    /\ nodes = <<>>
    /\ artifacts = <<>>
    /\ devices = {}
    /\ environments = {}
    /\ deployment_relationships = <<>>

\* the file on disk: absent, present with content json.load rejects, or
\* present with a configuration
MissingFile == [exists |-> FALSE, content |-> <<>>]
MalformedFile == [exists |-> TRUE, content |-> <<>>]
ValidFile(cfg) == [exists |-> TRUE, content |-> <<cfg>>]

\* get_config() has run once in this process and cached the file's content
ConfigCached ==
    /\ cfgFile = ValidFile(nCfg)
    /\ cfgObj = 1
    /\ cfgMade = 1
    /\ cfgLog = <<>>
    /\ nErr = ""

NormInit ==
    /\ nCat \in Categories
    /\ nName \in RawNames(nCat)
    /\ nCfg \in Configs
    /\ ConfigCached
    /\ NoOverlay
    /\ NoRuns
    /\ nOut = NoName
    /\ nOut2 = NoName
    /\ nTiers = <<>>
    /\ nPc = "start"
    /\ NoExtractor

\* canonical = normalize_<category>(name)
NormalizeCall ==
    /\ nPc = "start"
    /\ LET r == Normalize(nName, nCat, nCfg)
       IN  /\ nOut' = r.out
           /\ nTiers' = r.tiers
    /\ nPc' = "once"
    /\ UNCHANGED <<nName, nCat, nCfg, nOut2, cfgVars, ovVars, concVars>>
    /\ UNCHANGED <<ctlVars, baseVars, compVars, deplVars>>

\* normalize_<category>(canonical): the function applied to its own result
NormalizeAgain ==
    /\ nPc = "once"
    /\ nOut2' = Normalize(nOut, nCat, nCfg).out
    /\ nPc' = "twice"
    /\ UNCHANGED <<nName, nCat, nCfg, nOut, nTiers, cfgVars, ovVars, concVars>>
    /\ UNCHANGED <<ctlVars, baseVars, compVars, deplVars>>

NormNext == NormalizeCall \/ NormalizeAgain

SpecNorm == NormInit /\ [][NormNext]_vars

(***************************************************************************)
(* The life of the global configuration instance: get_config,              *)
(* reload_config and the normalize_* calls that reach get_config           *)
(***************************************************************************)
MaxCfgCalls == 3

\* the normalize_* calls made while the configuration comes and goes: the
\* empty name, a name a hardcoded pattern matches, names only the configured
\* patterns match, a name nothing matches
CfgCalls ==
    { [cat |-> "components", name |-> <<>>],
      [cat |-> "components", name |-> <<Lw("stripe")>>],
      [cat |-> "components", name |-> <<Lw("gateway")>>],
      [cat |-> "devices", name |-> <<Lw("tablet")>>],
      [cat |-> "nodes", name |-> <<Lw("the"), Lw("linux")>>] }

\* the contents normalization_config.json takes
CfgContents == {DefaultConfig, [DefaultConfig EXCEPT !.apply_patterns = FALSE]}
ConfigFiles ==
    {MissingFile, MalformedFile} \cup {ValidFile(c) : c \in CfgContents}

\* the global _config_instance and what a call has done to it so far
CfgState ==
    [obj |-> cfgObj, made |-> cfgMade, cfg |-> nCfg, log |-> cfgLog, err |-> ""]

\* NormalizationConfig._load_config: the exception it raises, "" if none
LoadError(file) ==
    IF ~file.exists THEN "FileNotFoundError"
    ELSE IF file.content = <<>> THEN "JSONDecodeError"
    ELSE ""

CfgEvent(op, g) == [op |-> op, id |-> g.obj, cfg |-> g.cfg]

\* NormalizationConfig(): a new object with the content of the file
NewConfig(g, file) ==
    [g EXCEPT !.obj = g.made + 1, !.made = g.made + 1, !.cfg = file.content[1]]

\* get_config() without the test of _config_instance
get_config_uncached(g, file) ==
    IF g.err # "" THEN g
    ELSE IF LoadError(file) # "" THEN [g EXCEPT !.err = LoadError(file)]
    ELSE     Let(NewConfig(g, file), LAMBDA g1 :
             [g1 EXCEPT !.log = Append(@, CfgEvent("get", g1))])

\* get_config(): the instance is built on the first call and returned by
\* every later one; an exception of the constructor leaves the global None
get_config(g, file) ==
    IF g.err # "" THEN g
    ELSE IF g.obj # 0 THEN [g EXCEPT !.log = Append(@, CfgEvent("get", g))]
    ELSE IF LoadError(file) # "" THEN [g EXCEPT !.err = LoadError(file)]
    ELSE     Let(NewConfig(g, file), LAMBDA g1 :
             [g1 EXCEPT !.log = Append(@, CfgEvent("get", g1))])

\* reload_config(): the global is assigned after the constructor returned
reload_config(g, file) ==
    IF LoadError(file) # "" THEN [g EXCEPT !.err = LoadError(file)]
    ELSE     Let(NewConfig(g, file), LAMBDA g1 :
             [g1 EXCEPT !.log = Append(@, CfgEvent("reload", g1))])

\* normalize_<cat>(name) with the calls of get_config it makes: none if the
\* name is empty or a hardcoded pattern matches, one before the configured
\* patterns, one more in _clean_text
NormalizeWithConfig(name, cat, g, file) ==
    IF name = <<>> THEN [g |-> g, out |-> <<>>, tiers |-> <<>>]
    ELSE IF ApplyCanonicalMap(name, HardTable(cat)) # NoName
    THEN [g |-> g, out |-> ApplyCanonicalMap(name, HardTable(cat)),
          tiers |-> <<"hard">>]
    ELSE     Let(get_config(g, file), LAMBDA g1 :
             IF g1.err # "" THEN [g |-> g1, out |-> NoName, tiers |-> <<"hard">>]
             ELSE     Let(Normalize(name, cat, g1.cfg), LAMBDA r :
                      [g |-> IF r.tiers[Len(r.tiers)] = "clean"
                             THEN get_config(g1, file) ELSE g1,
                       out |-> r.out, tiers |-> r.tiers]))

SetCfgState(g) ==
    /\ cfgObj' = g.obj
    /\ cfgMade' = g.made
    /\ nCfg' = g.cfg
    /\ cfgLog' = g.log
    /\ nErr' = g.err

\* the process has imported the modules; nothing has called get_config yet
ConfigInit ==
    /\ cfgFile \in ConfigFiles
    /\ cfgObj = 0
    /\ cfgMade = 0
    /\ cfgLog = <<>>
    /\ nErr = ""
    /\ nCfg = DefaultConfig
    /\ nName = NoName
    /\ nCat = "components"
    /\ nOut = NoName
    /\ nOut2 = NoName
    /\ nTiers = <<>>
    /\ nPc = "config"
    /\ NoOverlay
    /\ NoRuns
    /\ NoExtractor

CfgFrame ==
    UNCHANGED <<nOut2, nPc, ovVars, concVars, ctlVars, baseVars, compVars,
                deplVars>>

\* normalization_config.json is edited, removed or damaged between calls
EditConfigFile ==
    /\ nPc = "config"
    /\ cfgFile' \in ConfigFiles \ {cfgFile}
    /\ UNCHANGED <<nName, nCat, nCfg, nOut, nTiers, nErr, cfgObj, cfgMade,
                   cfgLog>>
    /\ CfgFrame

\* a caller runs get_config()
GetConfigCall ==
    /\ nPc = "config" /\ Len(cfgLog) < MaxCfgCalls
    /\ SetCfgState(get_config(CfgState, cfgFile))
    /\ UNCHANGED <<nName, nCat, nOut, nTiers, cfgFile>>
    /\ CfgFrame

\* a caller runs reload_config()
ReloadConfigCall ==
    /\ nPc = "config" /\ Len(cfgLog) < MaxCfgCalls
    /\ SetCfgState(reload_config(CfgState, cfgFile))
    /\ UNCHANGED <<nName, nCat, nOut, nTiers, cfgFile>>
    /\ CfgFrame

\* a caller runs normalize_<cat>(name)
NormalizeConfigCall ==
    /\ nPc = "config" /\ Len(cfgLog) + 2 <= MaxCfgCalls
    /\ \E c \in CfgCalls :
            LET r == NormalizeWithConfig(c.name, c.cat, CfgState, cfgFile)
            IN  /\ nName' = c.name
                /\ nCat' = c.cat
                /\ nOut' = r.out
                /\ nTiers' = r.tiers
                /\ SetCfgState(r.g)
    /\ UNCHANGED cfgFile
    /\ CfgFrame

ConfigNext ==
    EditConfigFile \/ GetConfigCall \/ ReloadConfigCall \/ NormalizeConfigCall

SpecConfig == ConfigInit /\ [][ConfigNext]_vars


(***************************************************************************)
(* Properties of the canonicalization layer                                *)
(***************************************************************************)
Has(s, x) == \E i \in DOMAIN s : s[i] = x

\* the table entries whose expression matches the name
HardHits(name, cat) ==
    {i \in DOMAIN HardTable(cat) :
        HardSearch(HardTable(cat)[i].parts, LowerName(name))}

\* start position and character length of the match of a table expression
HardStart(parts, name) ==
    Min({i \in 1..Len(name) :
           \E l \in Lang(parts) : OccursAt(l, Words(name), i)})

HardSpan(parts, name) ==
        Let(HardStart(parts, name), LAMBDA i :
        Let({CharLen(Strip(SubSeq(name, i, i + Len(l) - 1))) :
               l \in {m \in Lang(parts) : OccursAt(m, Words(name), i)}}, LAMBDA lens :
        CHOOSE n \in lens : \A m \in lens : m <= n))

\* the text apply_patterns searches
SearchText(cfg, name) == IF cfg.case_sensitive THEN name ELSE LowerName(name)

\* C7: canonicalization is idempotent in every category: the function applied
\* to its own result returns that result unchanged.
Cex_C7_Idempotent == nPc = "twice" => nOut2 = nOut

\* C8: when several expressions of the fixed table match the name, the result
\* is the canonical name of the first of them in table order, whatever the
\* lengths or positions of the matches.
Thm_C8_FirstHardcodedWins ==
    (nPc # "start" /\ nName # <<>>) =>
        \A j \in HardHits(nName, nCat) :
            \E i \in HardHits(nName, nCat) :
                /\ i <= j
                /\ \A k \in HardHits(nName, nCat) : i <= k
                /\ nOut = HardTable(nCat)[i].canon

\* a later table entry matches too, with a longer span at an earlier position,
\* and names something else; the first entry's name was returned
Wit_C8_LaterLongerMatch ==
    /\ nPc = "once"
    /\ \E i, j \in HardHits(nName, nCat) :
          LET t == HardTable(nCat) IN
          /\ i < j
          /\ \A k \in HardHits(nName, nCat) : i <= k
          /\ t[i].canon # t[j].canon
          /\ HardSpan(t[j].parts, nName) > HardSpan(t[i].parts, nName)
          /\ nOut = t[i].canon

\* C9: when the configuration tier names the result and several config
\* patterns match, the result is the canonical name of a pattern whose matched
\* span is longest; no shorter match is returned while a longer one exists.
Thm_C9_LongestConfigWins ==
    (nPc # "start" /\ Has(nTiers, "config") /\ ~Has(nTiers, "clean")) =>
        LET ms == ConfigMatches(nCfg, SearchText(nCfg, nName), nCat)
        IN  \E i \in DOMAIN ms :
                /\ ms[i].canon = nOut
                /\ \A j \in DOMAIN ms : ms[j].len <= ms[i].len

\* two config patterns match, the first collected one with the shorter span
Wit_C9_ShorterCollectedFirst ==
    /\ nPc = "once"
    /\ nTiers = <<"hard", "config">>
    /\ LET ms == ConfigMatches(nCfg, SearchText(nCfg, nName), nCat)
       IN  /\ Len(ms) >= 2
           /\ \E j \in DOMAIN ms : ms[j].len > ms[1].len /\ ms[j].canon = nOut
           /\ ms[1].canon # nOut

\* C10: the configuration tier is consulted only when no fixed-table expression
\* matches; the fallback cleaning only when neither the fixed table nor the
\* enabled configuration tier yields a name; a fixed-table match wins over a
\* config match even when the config match is longer.
Thm_C10_TierOrder ==
    (nPc # "start" /\ nName # <<>>) =>
        LET hits == HardHits(nName, nCat)
            useCfg == nCfg.enabled /\ nCfg.apply_patterns
            cfgName == ApplyPatterns(nCfg, nName, nCat)
        IN  /\ Has(nTiers, "config") => (hits = {} /\ useCfg)
            /\ Has(nTiers, "clean") =>
                  (hits = {} /\ (~useCfg \/ cfgName = NoName))
            /\ hits # {} =>
                  (nTiers = <<"hard">> /\ nOut = HardTable(nCat)[Min(hits)].canon)
            /\ (hits = {} /\ useCfg /\ cfgName # NoName) => nOut = cfgName

\* a fixed-table match and a longer config match naming something else
Wit_C10_HardBeatsLongerConfig ==
    /\ nPc = "once"
    /\ HardHits(nName, nCat) # {}
    /\ nCfg.enabled /\ nCfg.apply_patterns
    /\ LET i == Min(HardHits(nName, nCat))
           ms == ConfigMatches(nCfg, SearchText(nCfg, nName), nCat)
       IN  /\ ms # <<>>
           /\ \E j \in DOMAIN ms :
                 /\ ms[j].len > HardSpan(HardTable(nCat)[i].parts, nName)
                 /\ ms[j].canon # HardTable(nCat)[i].canon
           /\ nOut = HardTable(nCat)[i].canon

(***************************************************************************)
(* Class names, attribute names and method names are character strings: a  *)
(* sequence of one-character strings.                                      *)
(***************************************************************************)
Lowers == <<"a", "b", "c", "d", "e", "f", "g", "h", "i", "j", "k", "l", "m",
            "n", "o", "p", "q", "r", "s", "t", "u", "v", "w", "x", "y", "z">>
Uppers == <<"A", "B", "C", "D", "E", "F", "G", "H", "I", "J", "K", "L", "M",
            "N", "O", "P", "Q", "R", "S", "T", "U", "V", "W", "X", "Y", "Z">>

\* the characters of the texts: letters, the blank and punctuation
Chars == {Lowers[i] : i \in DOMAIN Lowers} \cup {Uppers[i] : i \in DOMAIN Uppers}
         \cup {" ", ".", ",", ";", ":", "(", ")", "%", "-"}

LowerMap ==
    [c \in Chars |->
        IF \E i \in DOMAIN Uppers : Uppers[i] = c
        THEN Lowers[CHOOSE i \in DOMAIN Uppers : Uppers[i] = c] ELSE c]
UpperMap ==
    [c \in Chars |->
        IF \E i \in DOMAIN Lowers : Lowers[i] = c
        THEN Uppers[CHOOSE i \in DOMAIN Lowers : Lowers[i] = c] ELSE c]

LowerCh(c) == LowerMap[c]
UpperCh(c) == UpperMap[c]
IsLowerCh(c) == UpperMap[c] # c
IsUpperCh(c) == LowerMap[c] # c
IsAlphaCh(c) == IsLowerCh(c) \/ IsUpperCh(c)

\* str.lower()
StrLower(s) == [i \in DOMAIN s |-> LowerCh(s[i])]

\* str.strip()
RECURSIVE StrLStrip(_)
StrLStrip(s) ==
    IF s # <<>> /\ Head(s) = " " THEN StrLStrip(Tail(s)) ELSE s
RECURSIVE StrRStrip(_)
StrRStrip(s) ==
    IF s # <<>> /\ s[Len(s)] = " " THEN StrRStrip(SubSeq(s, 1, Len(s) - 1))
    ELSE s
StrStrip(s) == StrRStrip(StrLStrip(s))

\* str.capitalize(): first character upper case, the rest lower case
StrCapitalize(s) ==
    [i \in DOMAIN s |-> IF i = 1 THEN UpperCh(s[i]) ELSE LowerCh(s[i])]

\* str.title(): a letter that follows a non-letter is upper case, every
\* other letter is lower case
StrTitle(s) ==
    [i \in DOMAIN s |->
        IF i = 1 \/ ~IsAlphaCh(s[i - 1]) THEN UpperCh(s[i]) ELSE LowerCh(s[i])]

\* re.sub(r'([a-z])([A-Z])', r'\1 \2', s): a blank between a lower-case
\* letter and the upper-case letter that follows it
RECURSIVE CamelSplit(_)
CamelSplit(s) ==
    IF Len(s) < 2 THEN s
    ELSE IF IsLowerCh(s[1]) /\ IsUpperCh(s[2])
         THEN <<s[1], " ">> \o CamelSplit(Tail(s))
         ELSE <<s[1]>> \o CamelSplit(Tail(s))

\* str.replace(" ", "")
StrNoBlanks(s) == SelectSeq(s, LAMBDA c : c # " ")

\* s.endswith(suf), sub in s
StrEndsWith(s, suf) ==
    /\ Len(suf) <= Len(s)
    /\ SubSeq(s, Len(s) - Len(suf) + 1, Len(s)) = suf
StrContains(s, sub) ==
    \E i \in 1..(Len(s) - Len(sub) + 1) :
        \A j \in DOMAIN sub : s[i + j - 1] = sub[j]

\* BaseDiagramExtractor._normalize_name
_normalize_name(raw) ==
        Let(StrStrip(raw), LAMBDA name :
        IF StrLower(name) = <<"a", "d", "d", "r", "e", "s", "s", "e", "s">> THEN <<"A", "d", "d", "r", "e", "s", "s">>
        ELSE IF StrEndsWith(StrLower(name), <<"e", "s", "s", "e", "s">>)
             THEN StrCapitalize(SubSeq(name, 1, Len(name) - 2))
             ELSE StrNoBlanks(StrTitle(CamelSplit(name))))

(***************************************************************************)
(* The registries of BaseDiagramExtractor.  found_classes is a dict: a     *)
(* sequence of entries in insertion order with distinct names.  The        *)
(* helpers work on a record st of the three attributes                     *)
(*   me = model_elements, fc = found_classes, fr = found_relationships.    *)
(***************************************************************************)
None == "None"

HasClass(fc, name) == \E i \in DOMAIN fc : fc[i].name = name
ClassIndex(fc, name) == CHOOSE i \in DOMAIN fc : fc[i].name = name

ClassElement(name, stereotype, source_id) ==
    [type |-> "Class",
     data |-> [name |-> name, attributes |-> <<>>, methods |-> <<>>,
               stereotype |-> stereotype],
     source_id |-> source_id]

RegistryEntry(name, stereotype) ==
    [name |-> name, attributes |-> <<>>, methods |-> <<>>,
     stereotype |-> stereotype]

\* BaseDiagramExtractor._add_class
_add_class(st, raw, stereotype, source_id) ==
        Let(_normalize_name(raw), LAMBDA name :
        IF HasClass(st.fc, name) THEN st
        ELSE [st EXCEPT
                !.fc = Append(@, RegistryEntry(name, stereotype)),
                !.me = Append(@, ClassElement(name, stereotype, source_id))])

\* "Update model elements" without the assignment: the elements keep the
\* lists they were created with
KeepElementLists(me, class_name, field, list) == me

\* the loop "Update model elements" of _add_attribute and _add_method: every
\* Class element of that name is given the registry's list
UpdateModelElements(me, class_name, field, list) ==
    [i \in DOMAIN me |->
        IF me[i].type = "Class" /\ me[i].data.name = class_name
        THEN IF field = "attributes"
             THEN [me[i] EXCEPT !.data.attributes = list]
             ELSE [me[i] EXCEPT !.data.methods = list]
        ELSE me[i]]

\* BaseDiagramExtractor._add_attribute
_add_attribute(st, raw_class, raw_attr, visibility, type_hint) ==
        Let(_normalize_name(raw_class), LAMBDA class_name :
        Let(StrLower(raw_attr), LAMBDA attr_name :
        IF ~HasClass(st.fc, class_name) THEN st
        ELSE     Let(ClassIndex(st.fc, class_name), LAMBDA k :
                 Let({st.fc[k].attributes[j].name :
                         j \in DOMAIN st.fc[k].attributes}, LAMBDA existing :
                 Let(Append(st.fc[k].attributes,
                            [name |-> attr_name,
                             visibility |-> visibility,
                             type |-> type_hint]), LAMBDA attrs :
                 IF attr_name \in existing THEN st
                 ELSE [st EXCEPT
                         !.fc[k].attributes = attrs,
                         !.me = UpdateModelElements(@, class_name,
                                                    "attributes", attrs)])))))

\* BaseDiagramExtractor._add_method
_add_method(st, raw_class, method_name, params, visibility, return_type) ==
        Let(_normalize_name(raw_class), LAMBDA class_name :
        IF ~HasClass(st.fc, class_name) THEN st
        ELSE     Let(ClassIndex(st.fc, class_name), LAMBDA k :
                 Let({StrLower(st.fc[k].methods[j].name) :
                         j \in DOMAIN st.fc[k].methods}, LAMBDA existing :
                 Let(Append(st.fc[k].methods,
                            [name |-> method_name,
                             params |-> params,
                             visibility |-> visibility,
                             return_type |-> return_type]), LAMBDA meths :
                 IF StrLower(method_name) \in existing THEN st
                 ELSE [st EXCEPT
                         !.fc[k].methods = meths,
                         !.me = UpdateModelElements(@, class_name,
                                                    "methods", meths)]))))

RelationshipElement(class_a, class_b, rel_type, source_id) ==
    [type |-> "Relationship",
     data |-> [class_a |-> class_a, class_b |-> class_b, type |-> rel_type,
               card_a |-> None, card_b |-> None],
     source_id |-> source_id]

\* the membership test of _add_relationship answering "not seen" always
AlwaysNew(fr, rel_key) == TRUE

\* "rel_key not in self.found_relationships"
IsNewRelationship(fr, rel_key) == rel_key \notin fr

\* BaseDiagramExtractor._add_relationship
_add_relationship(st, raw_a, raw_b, rel_type, source_id) ==
        Let(_normalize_name(raw_a), LAMBDA class_a :
        Let(_normalize_name(raw_b), LAMBDA class_b :
        Let(<<class_a, class_b, rel_type>>, LAMBDA rel_key :
        IF IsNewRelationship(st.fr, rel_key)
        THEN [st EXCEPT
                !.fr = @ \cup {rel_key},
                !.me = Append(@, RelationshipElement(class_a, class_b,
                                                     rel_type, source_id))]
        ELSE st)))

\* UseCaseDiagramExtractor._add_relationship: the target keeps its blanks
UseCase_add_relationship(st, raw_source, raw_target, rel_type, source_id) ==
        Let(_normalize_name(raw_source), LAMBDA source :
        Let(StrStrip(raw_target), LAMBDA target :
        Let(<<source, target, rel_type>>, LAMBDA rel_key :
        IF IsNewRelationship(st.fr, rel_key)
        THEN [st EXCEPT
                !.fr = @ \cup {rel_key},
                !.me = Append(@, RelationshipElement(source, target,
                                                     rel_type, source_id))]
        ELSE st)))

(***************************************************************************)
(* ClassDiagramExtractor.extract.  A story is given by what the language   *)
(* pipeline reports about its text:                                        *)
(*   id      story.get('storyid')                                          *)
(*   ents    doc.ents as records [text, label, inMain, upper], inMain =    *)
(*           "txt in main_part"                                            *)
(*   role    group 1 of the "As a X" expression, NoName if it fails        *)
(*   tokens  main_doc and ctx_doc as records [text, lemma, dobj], dobj =   *)
(*           the token is the direct object of a verb of the main part     *)
(*   hasI    a token "I" or "i" occurs                                     *)
(*   nsubj   the texts of the subject tokens of the verbs of the main part *)
(*   calls   the calls of the registry helpers made by the analysis of the *)
(*           verbs, in order; Subject stands for subject_entity            *)
(***************************************************************************)
SeqToSet(s) == {s[i] : i \in DOMAIN s}

class_stop_list ==
    {<<"w", "o", "r", "k">>, <<"t", "a", "l", "k", "s">>, <<"a", "r", "t", "i", "c", "l", "e", "s">>, <<"i", "n", "f", "o", "r", "m", "a", "t", "i", "o", "n">>, <<"t", "i", "m", "e">>, <<"f", "u", "t", "u", "r", "e">>,
     <<"i", "m", "m", "e", "d", "i", "a", "t", "e">>, <<"t", "e", "a", "m", "m", "a", "t", "e", "s">>, <<"m", "e">>, <<"d", "a", "t", "a", "s", "e", "t">>, <<"v", "e", "r", "s", "i", "o", "n">>, <<"v", "e", "r", "s", "i", "o", "n", "s">>, <<"i", "t">>,
     <<"t", "h", "e", "m">>, <<"d", "a", "t", "a">>, <<"s", "t", "o", "r", "a", "g", "e">>, <<"a", "c", "c", "e", "s", "s">>, <<"c", "o", "n", "t", "e", "n", "t">>, <<"h", "i", "s", "t", "o", "r", "y">>, <<"s", "y", "s", "t", "e", "m">>,
     <<"%">>, <<"s", "p", "a", "c", "e">>, <<"m", "i", "s", "t", "a", "k", "e">>, <<"m", "i", "s", "t", "a", "k", "e", "s">>, <<"i", "n", "t", "e", "r", "f", "a", "c", "e">>, <<"o", "r", "g", "a", "n", "i", "z", "a", "t", "i", "o", "n">>,
     <<"c", "a", "p", "a", "c", "i", "t", "y">>, <<"d", "r", "a", "g", "-", "a", "n", "d", "-", "d", "r", "o", "p">>, <<"p", "e", "r", "f", "o", "r", "m", "a", "n", "c", "e">>, <<"r", "e", "v", "e", "n", "u", "e">>, <<"f", "o", "r", "e", "c", "a", "s", "t">>,
     <<"v", "a", "l", "u", "e">>, <<"p", "i", "p", "e", "l", "i", "n", "e">>, <<"i", "n", "t", "e", "r", "a", "c", "t", "i", "o", "n">>, <<"s", "t", "a", "g", "e">>, <<"p", "o", "t", "e", "n", "t", "i", "a", "l">>}

attribute_patterns ==
    {<<"n", "a", "m", "e">>, <<"a", "d", "d", "r", "e", "s", "s">>, <<"d", "a", "t", "e">>, <<"i", "d">>, <<"e", "m", "a", "i", "l">>, <<"t", "y", "p", "e">>, <<"s", "t", "a", "t", "u", "s">>, <<"n", "u", "m", "b", "e", "r">>,
     <<"c", "o", "d", "e">>, <<"p", "a", "s", "s", "w", "o", "r", "d">>, <<"u", "s", "e", "r", "n", "a", "m", "e">>, <<"p", "r", "i", "c", "e">>, <<"d", "e", "s", "c", "r", "i", "p", "t", "i", "o", "n">>, <<"q", "u", "a", "n", "t", "i", "t", "y">>,
     <<"t", "o", "t", "a", "l", "a", "m", "o", "u", "n", "t">>, <<"o", "r", "d", "e", "r", "d", "a", "t", "e">>, <<"s", "h", "i", "p", "p", "i", "n", "g", "a", "d", "d", "r", "e", "s", "s">>, <<"p", "i", "c", "t", "u", "r", "e">>, <<"i", "m", "a", "g", "e">>,
     <<"v", "e", "r", "s", "i", "o", "n">>}

Subject == <<"subject_entity">>

\* current_actors after the entities and the "As a X" expression
ActorsOfEnts(ents) ==
        Let(SelectSeq(ents, LAMBDA e : e.label = "ACTOR"), LAMBDA acts :
        [i \in DOMAIN acts |-> _normalize_name(acts[i].text)])

ActorsOfRole(actors, role) ==
    IF role = NoName THEN actors
    ELSE     Let(_normalize_name(StrStrip(role)), LAMBDA role_clean :
             IF role_clean \in SeqToSet(actors) THEN actors
             ELSE Append(actors, role_clean))

\* current_classes after the entities labelled CLASS
ClassesOfEnts(ents) ==
    LET keep(e) == /\ e.label = "CLASS"
                   /\ StrLower(e.text) \notin class_stop_list
                   /\ (e.inMain \/ IsUpperCh(e.text[1]))
    IN  Let(SelectSeq(ents, keep), LAMBDA cls :
        [i \in DOMAIN cls |-> _normalize_name(cls[i].text)])

\* the loops over main_doc and ctx_doc: direct objects become classes, a
\* token "inspector" adds the actor Inspector
RECURSIVE ScanTokens(_, _, _)
ScanTokens(tokens, actors, classes) ==
    IF tokens = <<>> THEN [actors |-> actors, classes |-> classes]
    ELSE     Let(Head(tokens), LAMBDA t :
             Let(/\ t.dobj
                 /\ \/ StrLower(t.text) \in attribute_patterns
                    \/ StrLower(t.text) \in class_stop_list, LAMBDA skipped :
             Let(_normalize_name(t.lemma), LAMBDA c_name :
             Let(IF /\ t.dobj
                    /\ ~skipped
                    /\ c_name \notin SeqToSet(classes)
                    /\ c_name \notin SeqToSet(actors)
                 THEN Append(classes, c_name) ELSE classes, LAMBDA classes1 :
             Let(IF /\ ~skipped
                    /\ StrLower(t.text) = <<"i", "n", "s", "p", "e", "c", "t", "o", "r">>
                    /\ <<"I", "n", "s", "p", "e", "c", "t", "o", "r">> \notin SeqToSet(actors)
                 THEN Append(actors, <<"I", "n", "s", "p", "e", "c", "t", "o", "r">>) ELSE actors, LAMBDA actors1 :
             ScanTokens(Tail(tokens), actors1, classes1))))))

\* "Deduplicate/Merge Logic": a class whose name lies inside a longer actor
\* name is dropped
FinalClasses(classes, actors) ==
    LET is_duplicate(c) ==
            \E i \in DOMAIN actors :
                /\ StrContains(StrLower(actors[i]), StrLower(c))
                /\ Len(actors[i]) > Len(c)
    IN  SelectSeq(classes, LAMBDA c : ~is_duplicate(c))

\* "Add Actors": the element and the registry entry are written directly
RECURSIVE AddActors(_, _, _)
AddActors(st, actors, story_id) ==
    IF actors = <<>> THEN st
    ELSE     Let(Head(actors), LAMBDA actor :
             Let(IF HasClass(st.fc, actor) THEN st
                 ELSE [st EXCEPT
                         !.me = Append(@, ClassElement(actor, "actor",
                                                       story_id)),
                         !.fc = Append(@, RegistryEntry(actor, "actor"))], LAMBDA st1 :
             AddActors(st1, Tail(actors), story_id)))

\* "Add Classes"
RECURSIVE AddClasses(_, _, _)
AddClasses(st, classes, story_id) ==
    IF classes = <<>> THEN st
    ELSE AddClasses(_add_class(st, Head(classes), None, story_id),
                    Tail(classes), story_id)

\* subject_entity: the first actor when the story says "I", else the first
\* subject token that is an actor, else NoName
SubjectEntity(story, actors) ==
    IF story.hasI /\ actors # <<>> THEN actors[1]
    ELSE     Let(SelectSeq(story.nsubj,
                           LAMBDA t : t \in SeqToSet(actors)), LAMBDA hits :
             IF hits = <<>> THEN NoName ELSE hits[1])

Arg(x, subject) == IF x = Subject THEN subject ELSE x

\* one call of a registry helper made by the analysis of the verbs
HelperCall(st, c, subject, story_id) ==
    CASE c.op = "class" ->
            _add_class(st, Arg(c.a, subject), None, story_id)
      [] c.op = "attribute" ->
            _add_attribute(st, Arg(c.a, subject), c.b, "-", "String")
      [] c.op = "method" ->
            _add_method(st, Arg(c.a, subject), c.b, <<>>, "+", "void")
      [] c.op = "relationship" ->
            _add_relationship(st, Arg(c.a, subject), Arg(c.b, subject),
                              c.t, story_id)

RECURSIVE HelperCalls(_, _, _, _)
HelperCalls(st, calls, subject, story_id) ==
    IF calls = <<>> THEN st
    ELSE HelperCalls(HelperCall(st, Head(calls), subject, story_id),
                     Tail(calls), subject, story_id)

\* the body of "for story in stories_list"
ClassStory(st, story) ==
        Let(ActorsOfRole(ActorsOfEnts(story.ents), story.role), LAMBDA actors0 :
        Let(ScanTokens(story.tokens, actors0, ClassesOfEnts(story.ents)), LAMBDA scan :
        Let(scan.actors, LAMBDA current_actors :
        Let(FinalClasses(scan.classes, current_actors), LAMBDA current_classes :
        Let(AddActors(st, current_actors, story.id), LAMBDA st1 :
        Let(AddClasses(st1, current_classes, story.id), LAMBDA st2 :
        Let(SubjectEntity(story, current_actors), LAMBDA subject_entity :
        IF subject_entity = NoName THEN st2
        ELSE HelperCalls(st2, story.calls, subject_entity, story.id))))))))

(***************************************************************************)
(* Post-processing of ClassDiagramExtractor.extract                        *)
(***************************************************************************)
\* "Dynamic Inheritance": every actor but User and System inherits from User
RECURSIVE InheritFromUser(_, _)
InheritFromUser(st, k) ==
    IF k > Len(st.fc) THEN st
    ELSE     Let(st.fc[k], LAMBDA e :
             Let(IF /\ e.stereotype = "actor"
                    /\ e.name # <<"U", "s", "e", "r">>
                    /\ e.name # <<"S", "y", "s", "t", "e", "m">>
                 THEN _add_relationship(st, e.name, <<"U", "s", "e", "r">>,
                                        "Inheritance", 0)
                 ELSE st, LAMBDA st1 :
             InheritFromUser(st1, k + 1)))

RECURSIVE AddAttributes(_, _, _)
AddAttributes(st, cls_name, names) ==
    IF names = <<>> THEN st
    ELSE AddAttributes(_add_attribute(st, cls_name, Head(names), "-",
                                      "String"),
                       cls_name, Tail(names))

RECURSIVE AddMethods(_, _, _)
AddMethods(st, cls_name, names) ==
    IF names = <<>> THEN st
    ELSE AddMethods(_add_method(st, cls_name, Head(names), <<>>, "+", "void"),
                    cls_name, Tail(names))

\* the default methods of an actor without methods
ActorMethods(st, cls_name) ==
        Let(StrLower(cls_name), LAMBDA lower :
        IF StrContains(lower, <<"i", "n", "s", "p", "e", "c", "t", "o", "r">>)
        THEN _add_method(
                 _add_method(st, cls_name, <<"r", "e", "c", "e", "i", "v", "e", "W", "o", "r", "k">>,
                             <<[name |-> <<"a", "s", "s", "i", "g", "n", "m", "e", "n", "t">>, type |-> <<"I", "n", "s", "p", "e", "c", "t", "i", "o", "n">>,
                                direction |-> "in"]>>, "+", "void"),
                 cls_name, <<"u", "p", "d", "a", "t", "e", "S", "t", "a", "t", "u", "s">>, <<>>, "+", "void")
        ELSE IF StrContains(lower, <<"r", "e", "s", "e", "a", "r", "c", "h", "e", "r">>)
        THEN AddMethods(st, cls_name, <<<<"l", "o", "g", "i", "n">>>>)
        ELSE IF cls_name = <<"U", "s", "e", "r">>
        THEN AddMethods(st, cls_name, <<<<"l", "o", "g", "i", "n">>, <<"l", "o", "g", "o", "u", "t">>>>)
        ELSE st)

\* "Domain Heuristics": the default attributes of a passive class
DefaultAttributes(fc, cn_lower) ==
    LET has(sub) == StrContains(cn_lower, sub)
    IN  Let(\E i \in DOMAIN fc :
                \/ StrContains(StrLower(fc[i].name), <<"l", "e", "a", "d">>)
                \/ StrContains(StrLower(fc[i].name), <<"o", "p", "p", "o", "r", "t", "u", "n", "i", "t", "y">>), LAMBDA has_crm :
        IF has(<<"v", "e", "r", "s", "i", "o", "n">>)
            THEN <<<<"v", "e", "r", "s", "i", "o", "n", "N", "u", "m", "b", "e", "r">>, <<"c", "h", "a", "n", "g", "e", "L", "o", "g">>, <<"r", "e", "l", "e", "a", "s", "e", "D", "a", "t", "e">>>>
        ELSE IF has(<<"r", "e", "p", "o", "r", "t">>) \/ has(<<"a", "r", "t", "i", "c", "l", "e">>)
            THEN <<<<"t", "i", "t", "l", "e">>, <<"c", "o", "n", "t", "e", "n", "t">>, <<"p", "u", "b", "l", "i", "s", "h", "e", "d", "D", "a", "t", "e">>, <<"a", "u", "t", "h", "o", "r">>>>
        ELSE IF has(<<"i", "n", "s", "p", "e", "c", "t", "i", "o", "n">>)
            THEN <<<<"s", "t", "a", "t", "u", "s">>, <<"s", "c", "h", "e", "d", "u", "l", "e", "d", "D", "a", "t", "e">>, <<"r", "e", "s", "u", "l", "t">>, <<"l", "o", "c", "a", "t", "i", "o", "n">>>>
        ELSE IF has(<<"f", "i", "l", "e">>) THEN <<<<"n", "a", "m", "e">>, <<"s", "i", "z", "e">>, <<"t", "y", "p", "e">>, <<"p", "a", "t", "h">>>>
        ELSE IF has(<<"f", "o", "l", "d", "e", "r">>) THEN <<<<"n", "a", "m", "e">>, <<"p", "a", "t", "h">>, <<"i", "t", "e", "m", "C", "o", "u", "n", "t">>>>
        ELSE IF has(<<"l", "i", "n", "k">>) THEN <<<<"u", "r", "l">>, <<"e", "x", "p", "i", "r", "y", "D", "a", "t", "e">>, <<"p", "e", "r", "m", "i", "s", "s", "i", "o", "n", "s">>>>
        ELSE IF has(<<"c", "o", "n", "t", "a", "c", "t">>) THEN <<<<"n", "a", "m", "e">>, <<"p", "h", "o", "n", "e">>, <<"e", "m", "a", "i", "l">>, <<"c", "o", "m", "p", "a", "n", "y">>>>
        ELSE IF has(<<"o", "p", "p", "o", "r", "t", "u", "n", "i", "t", "y">>) \/ has(<<"l", "e", "a", "d">>)
            THEN <<<<"s", "t", "a", "g", "e">>, <<"v", "a", "l", "u", "e">>, <<"c", "l", "o", "s", "e", "D", "a", "t", "e">>, <<"p", "r", "o", "b", "a", "b", "i", "l", "i", "t", "y">>>>
        ELSE IF has(<<"a", "c", "c", "o", "u", "n", "t">>)
            THEN IF has_crm THEN <<<<"n", "a", "m", "e">>, <<"i", "n", "d", "u", "s", "t", "r", "y">>, <<"l", "o", "c", "a", "t", "i", "o", "n">>>>
                 ELSE <<<<"u", "s", "e", "r", "n", "a", "m", "e">>, <<"p", "a", "s", "s", "w", "o", "r", "d">>, <<"e", "m", "a", "i", "l">>>>
        ELSE IF has(<<"a", "c", "t", "i", "v", "i", "t", "y">>) THEN <<<<"t", "y", "p", "e">>, <<"d", "a", "t", "e">>, <<"n", "o", "t", "e", "s">>, <<"d", "u", "r", "a", "t", "i", "o", "n">>>>
        ELSE IF has(<<"r", "e", "m", "i", "n", "d", "e", "r">>) THEN <<<<"d", "a", "t", "e">>, <<"t", "i", "m", "e">>, <<"n", "o", "t", "e">>, <<"s", "t", "a", "t", "u", "s">>>>
        ELSE IF has(<<"c", "a", "m", "p", "a", "i", "g", "n">>)
            THEN <<<<"n", "a", "m", "e">>, <<"b", "u", "d", "g", "e", "t">>, <<"s", "t", "a", "r", "t", "D", "a", "t", "e">>, <<"e", "n", "d", "D", "a", "t", "e">>, <<"t", "y", "p", "e">>>>
        ELSE IF has(<<"e", "m", "a", "i", "l">>)
            THEN <<<<"s", "u", "b", "j", "e", "c", "t">>, <<"b", "o", "d", "y">>, <<"r", "e", "c", "i", "p", "i", "e", "n", "t">>, <<"s", "e", "n", "d", "e", "r">>, <<"d", "a", "t", "e">>>>
        ELSE <<<<"i", "d">>, <<"d", "e", "s", "c", "r", "i", "p", "t", "i", "o", "n">>>>)

\* the default operations of a passive class
DefaultOps(cn_lower) ==
    LET has(sub) == StrContains(cn_lower, sub)
    IN  IF has(<<"v", "e", "r", "s", "i", "o", "n">>) THEN <<<<"d", "o", "w", "n", "l", "o", "a", "d">>, <<"r", "e", "s", "t", "o", "r", "e">>, <<"d", "i", "f", "f">>>>
        ELSE IF has(<<"i", "n", "s", "p", "e", "c", "t", "i", "o", "n">>)
            THEN <<<<"c", "o", "m", "p", "l", "e", "t", "e">>, <<"c", "a", "n", "c", "e", "l">>, <<"u", "p", "d", "a", "t", "e", "R", "e", "s", "u", "l", "t">>>>
        ELSE IF has(<<"r", "e", "p", "o", "r", "t">>)
            THEN <<<<"p", "u", "b", "l", "i", "s", "h">>, <<"a", "r", "c", "h", "i", "v", "e">>, <<"e", "x", "p", "o", "r", "t">>, <<"s", "a", "v", "e">>, <<"d", "e", "l", "e", "t", "e">>>>
        ELSE IF has(<<"f", "i", "l", "e">>) THEN <<<<"o", "p", "e", "n">>, <<"e", "d", "i", "t">>, <<"s", "h", "a", "r", "e">>, <<"d", "o", "w", "n", "l", "o", "a", "d">>>>
        ELSE IF has(<<"f", "o", "l", "d", "e", "r">>)
            THEN <<<<"a", "d", "d", "F", "i", "l", "e">>, <<"r", "e", "m", "o", "v", "e", "F", "i", "l", "e">>, <<"l", "i", "s", "t", "C", "o", "n", "t", "e", "n", "t", "s">>>>
        ELSE <<<<"s", "a", "v", "e">>, <<"d", "e", "l", "e", "t", "e">>>>

\* "Add default attributes to Actors if missing" and the defaults of the
\* passive classes, over found_classes.items()
RECURSIVE AddDefaults(_, _)
AddDefaults(st, k) ==
    IF k > Len(st.fc) THEN st
    ELSE     Let(st.fc[k], LAMBDA e :
             Let(e.name, LAMBDA cls_name :
             Let(e.stereotype = "actor", LAMBDA is_actor :
             Let(AddAttributes(st, cls_name, <<<<"i", "d">>, <<"n", "a", "m", "e">>, <<"e", "m", "a", "i", "l">>>>), LAMBDA withAttrs :
             Let(IF HasClass(withAttrs.fc, cls_name) /\ withAttrs.fc[k].methods = <<>>
                 THEN ActorMethods(withAttrs, cls_name)
                 ELSE withAttrs, LAMBDA actorDone :
             Let(
                 AddMethods(
                     AddAttributes(st, cls_name,
                                   DefaultAttributes(st.fc, StrLower(cls_name))),
                     cls_name, DefaultOps(StrLower(cls_name))), LAMBDA passiveDone :
             Let(IF e.attributes # <<>> THEN st
                 ELSE IF is_actor THEN actorDone ELSE passiveDone, LAMBDA st1 :
             AddDefaults(st1, k + 1))))))))

PostProcess(st) ==
        Let(IF HasClass(st.fc, <<"U", "s", "e", "r">>) THEN InheritFromUser(st, 1) ELSE st, LAMBDA st1 :
        AddDefaults(st1, 1))

(***************************************************************************)
(* Python sets of strings.  A set is iterated in the order of the hashes   *)
(* of its members, which is fixed for the life of the process and differs  *)
(* between processes (PYTHONHASHSEED): hashSeed selects one of two orders. *)
(***************************************************************************)
CharOrder == <<" ">> \o Uppers \o Lowers
CharRank(c) ==
    IF \E i \in DOMAIN CharOrder : CharOrder[i] = c
    THEN CHOOSE i \in DOMAIN CharOrder : CharOrder[i] = c
    ELSE 0

RECURSIVE StrLess(_, _)
StrLess(a, b) ==
    IF a = <<>> THEN b # <<>>
    ELSE IF b = <<>> THEN FALSE
    ELSE IF CharRank(Head(a)) # CharRank(Head(b))
         THEN CharRank(Head(a)) < CharRank(Head(b))
         ELSE StrLess(Tail(a), Tail(b))

RECURSIVE IterStrings(_, _)
IterStrings(S, seed) ==
    IF S = {} THEN <<>>
    ELSE     Let(CHOOSE x \in S : \A y \in S \ {x} :
                     IF seed = 0 THEN StrLess(x, y) ELSE StrLess(y, x), LAMBDA first :
             <<first>> \o IterStrings(S \ {first}, seed))

(***************************************************************************)
(* UseCaseDiagramExtractor                                                 *)
(***************************************************************************)
\* str.find(sub): the first position of sub in s, 0 if there is none
StrFind(s, sub) ==
        Let({i \in 1..(Len(s) - Len(sub) + 1) :
                SubSeq(s, i, i + Len(sub) - 1) = sub}, LAMBDA hits :
        IF hits = {} THEN 0 ELSE Min(hits))

\* re.sub(r'\s*\(.*?\)', '', text): each parenthesis, with the blanks in
\* front of it, is removed
RECURSIVE RemoveParens(_)
RemoveParens(text) ==
        Let({p \in (DOMAIN text) \X (DOMAIN text) :
                /\ text[p[1]] = "(" /\ text[p[2]] = ")" /\ p[1] < p[2]}, LAMBDA pairs :
        IF pairs = {} THEN text
        ELSE     Let(Min({p[1] : p \in pairs}), LAMBDA open :
                 Let(Min({p[2] : p \in {q \in pairs : q[1] = open}}), LAMBDA close :
                 Let({i \in 0..(open - 1) :
                         \A j \in (i + 1)..(open - 1) : text[j] = " "}, LAMBDA blanks :
                 Let(Min(blanks), LAMBDA from :
                 SubSeq(text, 1, from) \o
                 RemoveParens(SubSeq(text, close + 1, Len(text))))))))

use_case_stops ==
    {<<" ", "s", "o", " ", "t", "h", "a", "t", " ">>, <<" ", "i", "n", " ", "o", "r", "d", "e", "r", " ", "t", "o", " ">>, <<" ", "s", "o", " ">>, <<" ", "w", "h", "e", "n", " ">>, <<" ", "u", "s", "i", "n", "g", " ">>, <<" ", "t", "o", " ", "g", "e", "t", " ">>,
     <<" ", "b", "e", "c", "a", "u", "s", "e", " ">>}

\* str.strip(" ,;:")
StripChars == {" ", ",", ";", ":"}
RECURSIVE StrStripSet(_)
StrStripSet(s) ==
    IF s # <<>> /\ Head(s) \in StripChars THEN StrStripSet(Tail(s))
    ELSE IF s # <<>> /\ s[Len(s)] \in StripChars
         THEN StrStripSet(SubSeq(s, 1, Len(s) - 1))
         ELSE s

\* UseCaseDiagramExtractor._clean_use_case_name
_clean_use_case_name(raw) ==
        Let(RemoveParens(raw), LAMBDA text :
        Let(StrLower(text), LAMBDA lower_text :
        Let({StrFind(lower_text, stop) : stop \in use_case_stops} \ {0}, LAMBDA found :
        Let(IF found = {} THEN text ELSE SubSeq(text, 1, Min(found) - 1), LAMBDA cut :
        Let(StrFind(cut, <<".">>), LAMBDA dot :
        Let(IF dot = 0 THEN cut ELSE SubSeq(cut, 1, dot - 1), LAMBDA first :
        StrCapitalize(StrStripSet(first))))))))

common_actors ==
    <<<<"U", "s", "e", "r">>, <<"S", "y", "s", "t", "e", "m">>, <<"A", "d", "m", "i", "n", "i", "s", "t", "r", "a", "t", "o", "r">>, <<"M", "a", "n", "a", "g", "e", "r">>, <<"C", "u", "s", "t", "o", "m", "e", "r">>, <<"S", "a", "l", "e", "s", " ", "R", "e", "p">>,
      <<"S", "a", "l", "e", "s", "R", "e", "p">>, <<"S", "t", "a", "f", "f">>, <<"S", "u", "p", "e", "r", "v", "i", "s", "o", "r">>, <<"R", "e", "s", "e", "a", "r", "c", "h", "e", "r">>, <<"P", "a", "t", "r", "o", "n">>, <<"C", "o", "n", "t", "a", "c", "t">>>>

\* a value of the parsed JSON that is not a string (a number)
NonString == <<"int">>

\* "Add/Link Primary Actors"; actor.strip() raises AttributeError for a
\* candidate that is not a string, and the loop is left
RECURSIVE LinkPrimary(_, _, _, _)
LinkPrimary(r, candidates, use_case_name, story_id) ==
    IF candidates = <<>> THEN r
    ELSE IF Head(candidates) = NonString THEN [r EXCEPT !.raised = TRUE]
    ELSE     Let(StrStrip(Head(candidates)), LAMBDA actor :
             Let(IF actor = <<>> \/ StrLower(actor) = <<"s", "y", "s", "t", "e", "m">> THEN r
                 ELSE [st |-> UseCase_add_relationship(
                                  _add_class(r.st, actor, "actor", story_id),
                                  actor, use_case_name, "-->", story_id),
                       primary |-> Append(r.primary, actor),
                       raised |-> FALSE], LAMBDA r1 :
             LinkPrimary(r1, Tail(candidates), use_case_name, story_id)))

\* "Filter secondary actors"
RECURSIVE LinkSecondary(_, _, _, _, _)
LinkSecondary(st, found, primary_actors, use_case_name, story_id) ==
    IF found = <<>> THEN st
    ELSE     Let(StrStrip(Head(found)), LAMBDA actor :
             Let(\E i \in DOMAIN primary_actors :
                     StrLower(primary_actors[i]) = StrLower(actor), LAMBDA is_primary :
             Let(
                 \E i \in DOMAIN primary_actors :
                     /\ \/ StrContains(primary_actors[i], actor)
                        \/ StrContains(actor, primary_actors[i])
                     /\ Len(actor) < Len(primary_actors[i]), LAMBDA is_substring :
             Let(IF \/ actor = <<>>
                    \/ StrLower(actor) = <<"s", "y", "s", "t", "e", "m">>
                    \/ is_primary
                    \/ is_substring
                 THEN st
                 ELSE UseCase_add_relationship(
                          _add_class(st, actor, "actor", story_id),
                          actor, use_case_name, "-->", story_id), LAMBDA st1 :
             LinkSecondary(st1, Tail(found), primary_actors, use_case_name,
                           story_id)))))

UseCaseElement(name, story_id) ==
    [type |-> "UseCase", data |-> [name |-> name], source_id |-> story_id]

\* UseCaseDiagramExtractor._extract_use_cases.  story.groq is the parsed
\* 'groq_output' of a JSON story text (keys = {} when the text is no JSON),
\* story.want the text after "want to", story.mentions the common actors
\* the text mentions.
_extract_use_cases(st, story, seed) ==
        Let("use_case" \in story.groq.keys, LAMBDA has_uc :
        Let({story.ents[i].text :
                i \in {j \in DOMAIN story.ents :
                          story.ents[j].label = "ACTOR"}}, LAMBDA ent_actors :
        Let(StrStrip(story.role), LAMBDA role :
        Let(
            (IF has_uc /\ story.groq.actor # NoName
             THEN {story.groq.actor} ELSE {})
            \cup ent_actors
            \cup (IF role # <<>> THEN {role} ELSE {}), LAMBDA candidates :
        Let(IF has_uc THEN _clean_use_case_name(story.groq.use_case)
            ELSE NoName, LAMBDA from_model :
        Let(
            IF from_model # NoName THEN from_model
            ELSE IF story.want # NoName THEN _clean_use_case_name(story.want)
            ELSE NoName, LAMBDA use_case_name :
        Let(
            ent_actors \cup {common_actors[i] : i \in story.mentions}, LAMBDA all_found_actors :
        IF use_case_name = NoName THEN st
        ELSE     Let([st EXCEPT
                        !.me = Append(@, UseCaseElement(use_case_name,
                                                        story.id))], LAMBDA st0 :
                 Let(LinkPrimary([st |-> st0, primary |-> <<>>,
                                  raised |-> FALSE],
                                 IterStrings(candidates, seed),
                                 use_case_name, story.id), LAMBDA r :
                 IF r.raised THEN r.st
                 ELSE LinkSecondary(r.st, IterStrings(all_found_actors, seed),
                                    r.primary, use_case_name, story.id))))))))))

(***************************************************************************)
(* SequenceDiagramExtractor and ActivityDiagramExtractor                   *)
(***************************************************************************)
SequenceMessage(sender, receiver, message, story_id) ==
    [type |-> "SequenceMessage",
     data |-> [sender |-> sender, receiver |-> receiver, message |-> message],
     source_id |-> story_id]

ActivityStep(lane, step, story_id) ==
    [type |-> "ActivityStep", data |-> [lane |-> lane, step |-> step],
     source_id |-> story_id]

\* the text up to the first of the characters seps
UpTo(s, seps) ==
        Let({i \in DOMAIN s : s[i] \in seps}, LAMBDA hits :
        IF hits = {} THEN s ELSE SubSeq(s, 1, Min(hits) - 1))

\* SequenceDiagramExtractor._extract_sequences
_extract_sequences(st, story) ==
    IF "interaction" \in story.groq.keys
    THEN     Let(IF story.groq.actor = NoName THEN <<"U", "s", "e", "r">>
                 ELSE story.groq.actor, LAMBDA actor :
             Let(IF story.groq.class = NoName THEN <<"S", "y", "s", "t", "e", "m">>
                 ELSE story.groq.class, LAMBDA class_name :
             Let(story.groq.interaction, LAMBDA inter :
             [st EXCEPT !.me = @ \o [i \in DOMAIN inter |->
                 SequenceMessage(actor, class_name, inter[i], story.id)]])))
    ELSE     Let(SelectSeq(story.ents,
                     LAMBDA e : e.label \in {"ACTOR", "CLASS"}), LAMBDA parts :
             Let(IF parts = <<>> THEN <<"U", "s", "e", "r">> ELSE parts[1].text, LAMBDA sender :
             Let(IF Len(parts) > 1 THEN parts[2].text ELSE <<"S", "y", "s", "t", "e", "m">>, LAMBDA receiver :
             Let(IF story.want = NoName THEN <<"p", "r", "o", "c", "e", "s", "s", " ", "r", "e", "q", "u", "e", "s", "t">>
                 ELSE StrStrip(UpTo(UpTo(story.want, {"."}), {","})), LAMBDA message :
             [st EXCEPT !.me = Append(@, SequenceMessage(sender, receiver,
                                                         message, story.id))]))))

\* ActivityDiagramExtractor._extract_activities; lanes[0] raises TypeError
\* for an actor that is a number
_extract_activities(st, story) ==
    IF "flow_steps" \in story.groq.keys /\ story.groq.actor = NonString
    THEN st
    ELSE IF "flow_steps" \in story.groq.keys
    THEN     Let(IF story.groq.actor = NoName THEN <<"C", "u", "s", "t", "o", "m", "e", "r">>
                 ELSE <<Head(story.groq.actor)>>, LAMBDA lane :
             Let(story.groq.flow_steps, LAMBDA steps :
             [st EXCEPT !.me = @ \o [i \in DOMAIN steps |->
                 ActivityStep(lane, steps[i], story.id)]]))
    ELSE     Let(SelectSeq(story.ents, LAMBDA e : e.label = "ACTOR"), LAMBDA acts :
             Let(IF acts = <<>> THEN <<"U", "s", "e", "r">> ELSE acts[1].text, LAMBDA current_lane :
             Let(IF story.want = NoName THEN <<>>
                 ELSE <<StrCapitalize(StrStrip(
                            UpTo(story.want, {",", "."})))>>, LAMBDA steps :
             [st EXCEPT !.me = @ \o [i \in DOMAIN steps |->
                 ActivityStep(current_lane, steps[i], story.id)]])))

(***************************************************************************)
(* Inputs of the story extractors                                          *)
(***************************************************************************)
MaxStories == 2
MaxRuns == 2

Ent(text, label, inMain) == [text |-> text, label |-> label, inMain |-> inMain]
Token(text, lemma, dobj) == [text |-> text, lemma |-> lemma, dobj |-> dobj]
Call(op, a, b, t) == [op |-> op, a |-> a, b |-> b, t |-> t]

NoGroq ==
    [keys |-> {}, actor |-> NoName, class |-> NoName, use_case |-> NoName,
     interaction |-> <<>>, flow_steps |-> <<>>]

PlainStory(id, role, ents, tokens, hasI, nsubj, calls, want, mentions) ==
    [id |-> id, role |-> role, ents |-> ents, tokens |-> tokens,
     hasI |-> hasI, nsubj |-> nsubj, calls |-> calls, groq |-> NoGroq,
     want |-> want, mentions |-> mentions]

\* "As a user, I want to upload files so that my team can open them."
StoryUpload ==
    PlainStory(1, <<"u", "s", "e", "r">>, <<>>,
               <<Token(<<"f", "i", "l", "e", "s">>, <<"f", "i", "l", "e">>, TRUE)>>, TRUE, <<>>,
               <<Call("method", Subject, <<"u", "p", "l", "o", "a", "d">>, None),
                 Call("relationship", Subject, <<"f", "i", "l", "e">>, "Association"),
                 Call("attribute", <<"f", "i", "l", "e">>, <<"S", "i", "z", "e">>, None),
                 Call("attribute", <<"F", "i", "l", "e">>, <<"s", "i", "z", "e">>, None)>>,
               <<"u", "p", "l", "o", "a", "d", " ", "f", "i", "l", "e", "s", " ", "s", "o", " ", "t", "h", "a", "t", " ", "m", "y", " ", "t", "e", "a", "m", " ", "c", "a", "n", " ", "o", "p", "e", "n", " ", "t", "h", "e", "m", ".">>, {1})

\* "As an Inspector, I want to view report versions (the latest), and
\*  reports."
StoryVersions ==
    PlainStory(2, <<"I", "n", "s", "p", "e", "c", "t", "o", "r">>,
               <<Ent(<<"I", "n", "s", "p", "e", "c", "t", "o", "r">>, "ACTOR", TRUE),
                 Ent(<<"r", "e", "p", "o", "r", "t">>, "CLASS", TRUE)>>,
               <<Token(<<"I", "n", "s", "p", "e", "c", "t", "o", "r">>, <<"I", "n", "s", "p", "e", "c", "t", "o", "r">>, FALSE),
                 Token(<<"v", "e", "r", "s", "i", "o", "n", "s">>, <<"v", "e", "r", "s", "i", "o", "n">>, TRUE)>>, TRUE, <<>>,
               <<Call("class", <<"R", "e", "p", "o", "r", "t", "V", "e", "r", "s", "i", "o", "n">>, None, None),
                 Call("relationship", Subject, <<"R", "e", "p", "o", "r", "t", "V", "e", "r", "s", "i", "o", "n">>, "Dependency"),
                 Call("relationship", <<"R", "e", "p", "o", "r", "t">>, <<"R", "e", "p", "o", "r", "t", "V", "e", "r", "s", "i", "o", "n">>,
                      "Composition"),
                 Call("method", Subject, <<"v", "i", "e", "w", "L", "a", "t", "e", "s", "t">>, None),
                 Call("method", Subject, <<"v", "i", "e", "w", "l", "a", "t", "e", "s", "t">>, None)>>,
               <<"v", "i", "e", "w", " ", "r", "e", "p", "o", "r", "t", " ", "v", "e", "r", "s", "i", "o", "n", "s", " ", "(", "t", "h", "e", " ", "l", "a", "t", "e", "s", "t", ")", ",", " ", "a", "n", "d", " ", "r", "e", "p", "o", "r", "t", "s", ".">>, {})

\* "As an admin, I want to manage file upload, FILEUPLOAD and fileUpload."
StoryVariants ==
    PlainStory(3, <<"a", "d", "m", "i", "n">>,
               <<Ent(<<"f", "i", "l", "e", " ", "u", "p", "l", "o", "a", "d">>, "CLASS", TRUE),
                 Ent(<<"F", "I", "L", "E", "U", "P", "L", "O", "A", "D">>, "CLASS", TRUE),
                 Ent(<<"f", "i", "l", "e", "U", "p", "l", "o", "a", "d">>, "CLASS", TRUE),
                 Ent(<<"A", "d", "m", "i", "n">>, "ACTOR", FALSE)>>,
               <<>>, TRUE, <<>>,
               <<Call("relationship", Subject, <<"f", "i", "l", "e", " ", "u", "p", "l", "o", "a", "d">>, "Association"),
                 Call("relationship", Subject, <<"F", "i", "l", "e", " ", "U", "p", "l", "o", "a", "d">>, "Association"),
                 Call("relationship", Subject, <<"F", "I", "L", "E", "U", "P", "L", "O", "A", "D">>, "Association")>>,
               <<"m", "a", "n", "a", "g", "e", " ", "f", "i", "l", "e", " ", "u", "p", "l", "o", "a", "d", ",", " ", "F", "I", "L", "E", "U", "P", "L", "O", "A", "D", " ", "a", "n", "d", " ", "f", "i", "l", "e", "U", "p", "l", "o", "a", "d", ".">>, {})

\* "Manager assigns addresses and processes to the Sales Rep; the System
\*  keeps History."
StoryNoRole ==
    PlainStory(4, NoName,
               <<Ent(<<"M", "a", "n", "a", "g", "e", "r">>, "ACTOR", TRUE),
                 Ent(<<"a", "d", "d", "r", "e", "s", "s", "e", "s">>, "CLASS", TRUE),
                 Ent(<<"p", "r", "o", "c", "e", "s", "s", "e", "s">>, "CLASS", TRUE),
                 Ent(<<"H", "i", "s", "t", "o", "r", "y">>, "CLASS", FALSE),
                 Ent(<<"R", "e", "p">>, "CLASS", FALSE),
                 Ent(<<"S", "a", "l", "e", "s", " ", "R", "e", "p">>, "ACTOR", TRUE),
                 Ent(<<"S", "y", "s", "t", "e", "m">>, "ACTOR", FALSE)>>,
               <<Token(<<"a", "d", "d", "r", "e", "s", "s", "e", "s">>, <<"a", "d", "d", "r", "e", "s", "s">>, TRUE)>>, FALSE, <<<<"M", "a", "n", "a", "g", "e", "r">>>>,
               <<Call("relationship", Subject, <<"a", "d", "d", "r", "e", "s", "s", "e", "s">>, "Association"),
                 Call("relationship", <<"S", "y", "s", "t", "e", "m">>, <<"S", "a", "l", "e", "s", " ", "R", "e", "p">>, "Dependency"),
                 Call("relationship", Subject, <<"A", "d", "d", "r", "e", "s", "s", "e", "s">>, "Association")>>,
               NoName, {2, 4, 6})

\* a story nobody is the subject of: "The report is archived."
StoryPassive ==
    PlainStory(5, NoName, <<Ent(<<"R", "e", "p", "o", "r", "t">>, "CLASS", TRUE)>>, <<>>, FALSE,
               <<<<"r", "e", "p", "o", "r", "t">>>>,
               <<Call("relationship", Subject, <<"R", "e", "p", "o", "r", "t">>, "Dependency")>>,
               NoName, {})

\* a story whose text is the JSON the language model returned
StoryGroq ==
    [id |-> 6, role |-> NoName, ents |-> <<>>, tokens |-> <<>>,
     hasI |-> FALSE, nsubj |-> <<>>, calls |-> <<>>,
     groq |-> [keys |-> {"use_case", "interaction", "flow_steps"},
               actor |-> <<"C", "u", "s", "t", "o", "m", "e", "r">>, class |-> NoName,
               use_case |-> <<"P", "a", "y", " ", "t", "h", "e", " ", "o", "r", "d", "e", "r", ",", " ", "u", "s", "i", "n", "g", " ", "a", " ", "c", "a", "r", "d", ".">>,
               interaction |-> <<<<"o", "p", "e", "n", " ", "c", "a", "r", "t">>, <<"p", "a", "y">>>>,
               flow_steps |-> <<<<"O", "p", "e", "n", " ", "c", "a", "r", "t">>, <<"P", "a", "y">>, <<"P", "a", "y">>>>],
     want |-> NoName, mentions |-> {5}]

\* a JSON story text whose "actor" is a number:
\* {"groq_output": {"use_case": "Pay", "actor": 5}}
StoryBadActor ==
    [id |-> 7, role |-> NoName, ents |-> <<>>, tokens |-> <<>>,
     hasI |-> FALSE, nsubj |-> <<>>, calls |-> <<>>,
     groq |-> [keys |-> {"use_case"}, actor |-> NonString, class |-> NoName,
               use_case |-> <<"P", "a", "y">>, interaction |-> <<>>,
               flow_steps |-> <<>>],
     want |-> NoName, mentions |-> {}]

\* "As an administrator, I want to assign tasks to the user."; no tagger
StoryAssign ==
    PlainStory(8, <<"a", "d", "m", "i", "n", "i", "s", "t", "r", "a", "t", "o", "r">>, <<>>,
               <<Token(<<"t", "a", "s", "k", "s">>, <<"t", "a", "s", "k">>, TRUE)>>, TRUE, <<>>,
               <<Call("relationship", Subject, <<"U", "s", "e", "r">>, "Association"),
                 Call("class", <<"U", "s", "e", "r">>, None, None),
                 Call("relationship", Subject, <<"T", "a", "s", "k">>, "Association"),
                 Call("method", Subject, <<"a", "s", "s", "i", "g", "n">>, None)>>,
               <<"a", "s", "s", "i", "g", "n", " ", "t", "a", "s", "k", "s", " ", "t", "o", " ", "t", "h", "e", " ", "u", "s", "e", "r", ".">>, {1, 3})

\* "As a power user, I want to export reports for the customer and the
\*  staff."; no tagger
StoryPower ==
    PlainStory(9, <<"p", "o", "w", "e", "r", " ", "u", "s", "e", "r">>, <<>>,
               <<Token(<<"r", "e", "p", "o", "r", "t", "s">>, <<"r", "e", "p", "o", "r", "t">>, TRUE)>>, TRUE, <<>>,
               <<Call("relationship", Subject, <<"R", "e", "p", "o", "r", "t">>, "Association"),
                 Call("method", Subject, <<"e", "x", "p", "o", "r", "t">>, None)>>,
               <<"e", "x", "p", "o", "r", "t", " ", "r", "e", "p", "o", "r", "t", "s", " ", "f", "o", "r", " ", "t", "h", "e", " ", "c", "u", "s", "t", "o", "m", "e", "r", " ", "a", "n", "d", " ", "t", "h", "e", " ", "s", "t", "a", "f", "f", ".">>, {1, 5, 8})

Stories == {StoryUpload, StoryVersions, StoryVariants, StoryNoRole,
            StoryPassive, StoryGroq, StoryBadActor, StoryAssign, StoryPower}

StoryKinds == {"class", "usecase", "sequence", "activity"}

(***************************************************************************)
(* extract() of the story extractors.  An extract() call is cut at the     *)
(* iterations of "for story in stories_list".                              *)
(***************************************************************************)
St == [me |-> model_elements, fc |-> found_classes,
       fr |-> found_relationships]

Returns(list) ==
    /\ returned' = Append(returned, list)
    /\ pc' = "idle"
    /\ idx' = 0

\* ClassDiagramExtractor.extract, up to the loop
ClassExtractBegin ==
    /\ kind = "class" /\ pc = "idle" /\ Len(returned) < MaxRuns
    /\ model_elements' = <<>>
    /\ found_classes' = <<>>
    /\ pc' = "stories"
    /\ idx' = 0
    /\ UNCHANGED <<found_relationships, kind, input, hashSeed, tech_mappings, returned>>
    /\ UNCHANGED <<normVars, compVars, deplVars>>

\* one iteration of the loop of ClassDiagramExtractor.extract
ClassExtractStory ==
    /\ kind = "class" /\ pc = "stories" /\ idx < Len(input)
    /\ \E st \in {ClassStory(St, input[idx + 1])} :
           /\ model_elements' = st.me
           /\ found_classes' = st.fc
           /\ found_relationships' = st.fr
    /\ idx' = idx + 1
    /\ UNCHANGED <<kind, input, hashSeed, tech_mappings, pc, returned>>
    /\ UNCHANGED <<normVars, compVars, deplVars>>

\* the post-processing and the return of ClassDiagramExtractor.extract
ClassExtractReturn ==
    /\ kind = "class" /\ pc = "stories" /\ idx = Len(input)
    /\ \E st \in {PostProcess(St)} :
           /\ model_elements' = st.me
           /\ found_classes' = st.fc
           /\ found_relationships' = st.fr
           /\ Returns(st.me)
    /\ UNCHANGED <<kind, input, hashSeed, tech_mappings>>
    /\ UNCHANGED <<normVars, compVars, deplVars>>

\* the three assignments that open extract() of the Use Case, Sequence and
\* Activity extractors
ResetAll ==
    /\ model_elements' = <<>>
    /\ found_classes' = <<>>
    /\ found_relationships' = {}
    /\ pc' = "stories"
    /\ idx' = 0
    /\ UNCHANGED <<kind, input, hashSeed, tech_mappings, returned>>
    /\ UNCHANGED <<normVars, compVars, deplVars>>

StoryStep(st) ==
    /\ model_elements' = st.me
    /\ found_classes' = st.fc
    /\ found_relationships' = st.fr
    /\ idx' = idx + 1
    /\ UNCHANGED <<kind, input, hashSeed, tech_mappings, pc, returned>>
    /\ UNCHANGED <<normVars, compVars, deplVars>>

ReturnElements ==
    /\ Returns(model_elements)
    /\ UNCHANGED <<kind, input, hashSeed, tech_mappings, baseVars>>
    /\ UNCHANGED <<normVars, compVars, deplVars>>

\* UseCaseDiagramExtractor.extract
UseCaseExtractBegin ==
    /\ kind = "usecase" /\ pc = "idle" /\ Len(returned) < MaxRuns
    /\ ResetAll
UseCaseExtractStory ==
    /\ kind = "usecase" /\ pc = "stories" /\ idx < Len(input)
    /\ StoryStep(_extract_use_cases(St, input[idx + 1], hashSeed))
UseCaseExtractReturn ==
    /\ kind = "usecase" /\ pc = "stories" /\ idx = Len(input)
    /\ ReturnElements

\* SequenceDiagramExtractor.extract
SequenceExtractBegin ==
    /\ kind = "sequence" /\ pc = "idle" /\ Len(returned) < MaxRuns
    /\ ResetAll
SequenceExtractStory ==
    /\ kind = "sequence" /\ pc = "stories" /\ idx < Len(input)
    /\ StoryStep(_extract_sequences(St, input[idx + 1]))
SequenceExtractReturn ==
    /\ kind = "sequence" /\ pc = "stories" /\ idx = Len(input)
    /\ ReturnElements

\* ActivityDiagramExtractor.extract
ActivityExtractBegin ==
    /\ kind = "activity" /\ pc = "idle" /\ Len(returned) < MaxRuns
    /\ ResetAll
ActivityExtractStory ==
    /\ kind = "activity" /\ pc = "stories" /\ idx < Len(input)
    /\ StoryStep(_extract_activities(St, input[idx + 1]))
ActivityExtractReturn ==
    /\ kind = "activity" /\ pc = "stories" /\ idx = Len(input)
    /\ ReturnElements

\* no canonicalization call is in progress
NormIdle ==
    /\ nName = NoName
    /\ nCat = "components"
    /\ nOut = NoName
    /\ nOut2 = NoName
    /\ nTiers = <<>>
    /\ nPc = "idle"

\* BaseDiagramExtractor.__init__ and the __init__ of the subclasses
ExtractorInit ==
    /\ pc = "idle"
    /\ idx = 0
    /\ returned = <<>>
    /\ hashSeed \in {0, 1}
    /\ model_elements = <<>>
    /\ found_classes = <<>>
    /\ found_relationships = {}
    /\ components = <<>>
    /\ external_systems = {}
    /\ relationships = <<>>
    /\ interfaces = <<>>
    /\ packages = <<>>
    /\ ports = <<>>
    /\ nodes = <<>>
    /\ artifacts = <<>>
    /\ devices = {}
    /\ environments = {}
    /\ deployment_relationships = <<>>

StoryInit ==
    /\ kind \in StoryKinds
    /\ input \in BSeq(Stories, MaxStories)
    /\ tech_mappings = NoMappings
    /\ nCfg = DefaultConfig
    /\ ConfigCached
    /\ NoOverlay
    /\ NoRuns
    /\ NormIdle
    /\ ExtractorInit

StoryNext ==
    \/ ClassExtractBegin \/ ClassExtractStory \/ ClassExtractReturn
    \/ UseCaseExtractBegin \/ UseCaseExtractStory \/ UseCaseExtractReturn
    \/ SequenceExtractBegin \/ SequenceExtractStory \/ SequenceExtractReturn
    \/ ActivityExtractBegin \/ ActivityExtractStory \/ ActivityExtractReturn

(***************************************************************************)
(* Architecture narrations.  The narration handed to the Component and     *)
(* Deployment extractors is given by what the language pipeline reports:   *)
(*   blank   "not narration_text or not narration_text.strip()"            *)
(*   sents   the sentences, re.split(r'[.!?]', text) and doc.sents, each a *)
(*           sequence of word tokens                                       *)
(*   ents    doc.ents as records [label, text]                             *)
(*   deps    the verbs of the dependency tree that are interaction verbs,  *)
(*           as records [lemma, subj, targets]: subj the nsubj token or    *)
(*           NoNode, targets the nodes extract_targets_from_node visits,   *)
(*           in order, with the description each one would be given        *)
(* Names are token sequences; where the code compares lower-case strings   *)
(* character by character, the spelling of the name is compared.           *)
(***************************************************************************)
\* the letters of the words
WordChars ==
    [ the |-> <<"t", "h", "e">>, a |-> <<"a">>, an |-> <<"a", "n">>, and |-> <<"a", "n", "d">>, for |-> <<"f", "o", "r">>,
      to |-> <<"t", "o">>, on |-> <<"o", "n">>, in |-> <<"i", "n">>, via |-> <<"v", "i", "a">>, of |-> <<"o", "f">>,
      payment |-> <<"p", "a", "y", "m", "e", "n", "t">>, order |-> <<"o", "r", "d", "e", "r">>, service |-> <<"s", "e", "r", "v", "i", "c", "e">>,
      api |-> <<"a", "p", "i">>, rest |-> <<"r", "e", "s", "t">>, grpc |-> <<"g", "r", "p", "c">>,
      gateway |-> <<"g", "a", "t", "e", "w", "a", "y">>, stripe |-> <<"s", "t", "r", "i", "p", "e">>,
      postgresql |-> <<"p", "o", "s", "t", "g", "r", "e", "s", "q", "l">>, redis |-> <<"r", "e", "d", "i", "s">>,
      database |-> <<"d", "a", "t", "a", "b", "a", "s", "e">>, backend |-> <<"b", "a", "c", "k", "e", "n", "d">>, module |-> <<"m", "o", "d", "u", "l", "e">>,
      billing |-> <<"b", "i", "l", "l", "i", "n", "g">>, dashboard |-> <<"d", "a", "s", "h", "b", "o", "a", "r", "d">>,
      connects |-> <<"c", "o", "n", "n", "e", "c", "t", "s">>, uses |-> <<"u", "s", "e", "s">>, exposes |-> <<"e", "x", "p", "o", "s", "e", "s">>,
      requires |-> <<"r", "e", "q", "u", "i", "r", "e", "s">>, contains |-> <<"c", "o", "n", "t", "a", "i", "n", "s">>, runs |-> <<"r", "u", "n", "s">>,
      port |-> <<"p", "o", "r", "t">>, p8080 |-> <<"8", "0", "8", "0">>, part |-> <<"p", "a", "r", "t">>, web |-> <<"w", "e", "b">>,
      browser |-> <<"b", "r", "o", "w", "s", "e", "r">>, desktop |-> <<"d", "e", "s", "k", "t", "o", "p">>, mobile |-> <<"m", "o", "b", "i", "l", "e">>,
      device |-> <<"d", "e", "v", "i", "c", "e">>, linux |-> <<"l", "i", "n", "u", "x">>, server |-> <<"s", "e", "r", "v", "e", "r">>,
      servers |-> <<"s", "e", "r", "v", "e", "r", "s">>, docker |-> <<"d", "o", "c", "k", "e", "r">>,
      container |-> <<"c", "o", "n", "t", "a", "i", "n", "e", "r">>, containers |-> <<"c", "o", "n", "t", "a", "i", "n", "e", "r", "s">>,
      kubernetes |-> <<"k", "u", "b", "e", "r", "n", "e", "t", "e", "s">>, system |-> <<"s", "y", "s", "t", "e", "m">>, users |-> <<"u", "s", "e", "r", "s">>,
      access |-> <<"a", "c", "c", "e", "s", "s">>, using |-> <<"u", "s", "i", "n", "g">>, through |-> <<"t", "h", "r", "o", "u", "g", "h">>,
      external |-> <<"e", "x", "t", "e", "r", "n", "a", "l">>, paypal |-> <<"p", "a", "y", "p", "a", "l">>,
      postgres |-> <<"p", "o", "s", "t", "g", "r", "e", "s">>, db |-> <<"d", "b">>, mysql |-> <<"m", "y", "s", "q", "l">>,
      mongo |-> <<"m", "o", "n", "g", "o">>, mongodb |-> <<"m", "o", "n", "g", "o", "d", "b">>, cache |-> <<"c", "a", "c", "h", "e">>,
      services |-> <<"s", "e", "r", "v", "i", "c", "e", "s">>, restful |-> <<"r", "e", "s", "t", "f", "u", "l">>,
      graphql |-> <<"g", "r", "a", "p", "h", "q", "l">>, pod |-> <<"p", "o", "d">>, pods |-> <<"p", "o", "d", "s">>,
      cluster |-> <<"c", "l", "u", "s", "t", "e", "r">>, instance |-> <<"i", "n", "s", "t", "a", "n", "c", "e">>,
      instances |-> <<"i", "n", "s", "t", "a", "n", "c", "e", "s">>, browsers |-> <<"b", "r", "o", "w", "s", "e", "r", "s">>,
      devices |-> <<"d", "e", "v", "i", "c", "e", "s">>, application |-> <<"a", "p", "p", "l", "i", "c", "a", "t", "i", "o", "n">>,
      applications |-> <<"a", "p", "p", "l", "i", "c", "a", "t", "i", "o", "n", "s">>, smartphone |-> <<"s", "m", "a", "r", "t", "p", "h", "o", "n", "e">>,
      smartphones |-> <<"s", "m", "a", "r", "t", "p", "h", "o", "n", "e", "s">>, client |-> <<"c", "l", "i", "e", "n", "t">>,
      clients |-> <<"c", "l", "i", "e", "n", "t", "s">>, computer |-> <<"c", "o", "m", "p", "u", "t", "e", "r">>,
      computers |-> <<"c", "o", "m", "p", "u", "t", "e", "r", "s">>, k8s |-> <<"k", "8", "s">>, endpoint |-> <<"e", "n", "d", "p", "o", "i", "n", "t">>,
      endpoints |-> <<"e", "n", "d", "p", "o", "i", "n", "t", "s">>, twilio |-> <<"t", "w", "i", "l", "i", "o">>, widget |-> <<"w", "i", "d", "g", "e", "t">>,
      production |-> <<"p", "r", "o", "d", "u", "c", "t", "i", "o", "n">>, prod |-> <<"p", "r", "o", "d">>, tablet |-> <<"t", "a", "b", "l", "e", "t">>,
      soap |-> <<"s", "o", "a", "p">>, sendgrid |-> <<"s", "e", "n", "d", "g", "r", "i", "d">>, s3 |-> <<"s", "3">>, aws |-> <<"a", "w", "s">>,
      lambda |-> <<"l", "a", "m", "b", "d", "a">>, queue |-> <<"q", "u", "e", "u", "e">>, message |-> <<"m", "e", "s", "s", "a", "g", "e">>,
      vm |-> <<"v", "m">>, virtual |-> <<"v", "i", "r", "t", "u", "a", "l">>, machine |-> <<"m", "a", "c", "h", "i", "n", "e">>,
      interface |-> <<"i", "n", "t", "e", "r", "f", "a", "c", "e">>, it |-> <<"i", "t">>, is |-> <<"i", "s">>,
      deployed |-> <<"d", "e", "p", "l", "o", "y", "e", "d">>, frontend |-> <<"f", "r", "o", "n", "t", "e", "n", "d">>, app |-> <<"a", "p", "p">> ]

\* name.lower() as a character string; the first token starts the string
RECURSIVE Spell(_)
Spell(name) ==
    IF name = <<>> THEN <<>>
    ELSE     Let(Len(name), LAMBDA n :
             Spell(SubSeq(name, 1, n - 1))
                 \o (IF n = 1 THEN <<>> ELSE [i \in 1..name[n].sp |-> " "])
                 \o WordChars[name[n].w])

\* a.lower() in b.lower()
In(a, b) == StrContains(Spell(b), Spell(a))

\* any(s in text.lower() for s in subs), subs character strings
AnyIn(subs, text) == \E s \in subs : StrContains(Spell(text), s)

\* text[0].isupper()
FirstUpper(text) ==
    /\ text # <<>>
    /\ \/ text[1].c \in {"title", "upper"}
       \/ text[1].c = "brand" /\ text[1].w # "grpc"

\* re.sub(r'\b(w1|w2|..)\b', '', text): the blanks around a removed word stay
RECURSIVE RemoveWords(_, _, _)
RemoveWords(text, ws, carry) ==
    IF text = <<>> THEN <<>>
    ELSE IF Head(text).w \in ws
         THEN RemoveWords(Tail(text), ws, carry + Head(text).sp)
         ELSE <<[Head(text) EXCEPT !.sp = @ + carry]>>
                  \o RemoveWords(Tail(text), ws, 0)

(***************************************************************************)
(* Regular expressions over word tokens.  An expression is a sequence of   *)
(* elements: Grp(min, max), a capturing group of min..max words (greedy),  *)
(* and Lit(alts), one of the word sequences alts, tried in order (LitOpt:  *)
(* or none of them).  ReMatch backtracks as the re module does and returns *)
(* the first match; groups holds the first and last token of each group.   *)
(***************************************************************************)
Grp(min, max) == [k |-> "grp", min |-> min, max |-> max]
Lit(alts) == [k |-> "lit", alts |-> alts, opt |-> FALSE]
LitOpt(alts) == [k |-> "lit", alts |-> alts, opt |-> TRUE]
\* alternatives of one word each
Alt(ws) == [i \in DOMAIN ws |-> <<ws[i]>>]

NoMatch == [ok |-> FALSE, next |-> 0, groups |-> <<>>]

RECURSIVE ReMatch(_, _, _), ReGroup(_, _, _, _), ReLit(_, _, _, _)
ReMatch(elems, ws, pos) ==
    IF elems = <<>> THEN [ok |-> TRUE, next |-> pos, groups |-> <<>>]
    ELSE IF Head(elems).k = "grp"
         THEN ReGroup(elems, ws, pos, Min({Head(elems).max, Len(ws) - pos + 1}))
         ELSE ReLit(elems, ws, pos, 1)
ReGroup(elems, ws, pos, n) ==
    IF n < Head(elems).min THEN NoMatch
    ELSE     Let(ReMatch(Tail(elems), ws, pos + n), LAMBDA r :
             IF r.ok THEN [r EXCEPT !.groups = <<<<pos, pos + n - 1>>>> \o @]
             ELSE ReGroup(elems, ws, pos, n - 1))
ReLit(elems, ws, pos, a) ==
    IF a > Len(Head(elems).alts)
    THEN IF Head(elems).opt THEN ReMatch(Tail(elems), ws, pos) ELSE NoMatch
    ELSE     Let(Head(elems).alts[a], LAMBDA alt :
             Let(IF OccursAt(alt, ws, pos)
                 THEN ReMatch(Tail(elems), ws, pos + Len(alt)) ELSE NoMatch, LAMBDA r :
             IF r.ok THEN r ELSE ReLit(elems, ws, pos, a + 1)))

\* re.search from token position from on
RECURSIVE ReSearch(_, _, _)
ReSearch(elems, ws, from) ==
    IF from > Len(ws) THEN NoMatch
    ELSE     Let(ReMatch(elems, ws, from), LAMBDA r :
             IF r.ok THEN r ELSE ReSearch(elems, ws, from + 1))

\* re.finditer / re.findall: the matches, left to right, not overlapping
RECURSIVE ReFindAll(_, _, _)
ReFindAll(elems, ws, from) ==
        Let(ReSearch(elems, ws, from), LAMBDA r :
        IF ~r.ok THEN <<>> ELSE <<r>> \o ReFindAll(elems, ws, r.next))

\* match.group(g).strip(), NoName for a group that took no word
Group(text, m, g) == Strip(SubSeq(text, m.groups[g][1], m.groups[g][2]))

(***************************************************************************)
(* Python dicts keyed by a name: sequences of records with a field name,   *)
(* in insertion order.  Python sets of names: iterated in an order that    *)
(* the hash seed of the process selects.                                   *)
(***************************************************************************)
HasKey(d, name) == \E i \in DOMAIN d : d[i].name = name
KeyIndex(d, name) == CHOOSE i \in DOMAIN d : d[i].name = name
Keys(d) == [i \in DOMAIN d |-> d[i].name]
DictDel(d, name) == SelectSeq(d, LAMBDA e : e.name # name)
\* d[entry.name] = entry
DictSet(d, entry) ==
    IF HasKey(d, entry.name)
    THEN [i \in DOMAIN d |-> IF d[i].name = entry.name THEN entry ELSE d[i]]
    ELSE Append(d, entry)

RECURSIVE IterNames(_, _)
IterNames(S, seed) ==
    IF S = {} THEN <<>>
    ELSE     Let(CHOOSE x \in S : \A y \in S \ {x} :
                     IF seed = 0 THEN ~StrLess(Spell(y), Spell(x))
                     ELSE ~StrLess(Spell(x), Spell(y)), LAMBDA first :
             <<first>> \o IterNames(S \ {first}, seed))

(***************************************************************************)
(* ComponentDiagramExtractor.  The helpers work on a record cs of the      *)
(* registries of the instance.  A component entry is [name, stereotype,    *)
(* parent_package]; its 'interfaces' and 'dependencies' lists are created  *)
(* empty and never written.                                                *)
(***************************************************************************)
Cs == [components |-> components, external_systems |-> external_systems,
       relationships |-> relationships, interfaces |-> interfaces,
       packages |-> packages, ports |-> ports]

_normalize_component_name(name) == normalize_component_name(name, nCfg)

\* the first technology of self.tech_mappings found in the text
_infer_stereotype(text) ==
        Let(tech_mappings.stereotypes, LAMBDA tm :
        Let({i \in DOMAIN tm : In(tm[i].tech, text)}, LAMBDA hits :
        IF hits = {} THEN None ELSE tm[Min(hits)].stereotype))

noise_terms ==
    {<<"s", "y", "s", "t", "e", "m">>, <<"t", "h", "e", " ", "s", "y", "s", "t", "e", "m">>, <<"a", "p", "p", "l", "i", "c", "a", "t", "i", "o", "n">>, <<"t", "h", "e", " ", "a", "p", "p", "l", "i", "c", "a", "t", "i", "o", "n">>, <<"f", "o", "r", " ", "c", "l", "i", "e", "n", "t">>,
     <<"c", "l", "i", "e", "n", "t", " ", "c", "o", "m", "m", "u", "n", "i", "c", "a", "t", "i", "o", "n">>, <<"f", "o", "r", " ", "c", "o", "m", "m", "u", "n", "i", "c", "a", "t", "i", "o", "n">>, <<"u", "s", "i", "n", "g">>, <<"w", "i", "t", "h">>, <<"f", "r", "o", "m">>,
     <<"t", "o">>, <<"a", "n", "d">>, <<"o", "r">>, <<"t", "h", "e">>}
actor_noise_terms == {<<"c", "l", "i", "e", "n", "t">>, <<"c", "u", "s", "t", "o", "m", "e", "r">>, <<"u", "s", "e", "r">>, <<"f", "r", "o", "n", "t", "e", "n", "d">>}
malformed_prefixes ==
    {"for", "with", "from", "to", "in", "on", "at", "by", "using", "via",
     "through", "exposes", "provides", "offers"}
infrastructure_terms ==
    {<<"s", "e", "r", "v", "e", "r">>, <<"c", "o", "n", "t", "a", "i", "n", "e", "r">>, <<"v", "i", "r", "t", "u", "a", "l", " ", "m", "a", "c", "h", "i", "n", "e">>, <<"v", "m">>, <<"h", "o", "s", "t">>, <<"c", "l", "u", "s", "t", "e", "r">>}

\* the three filters of _add_component and _build_component_elements: noise
\* terms, malformed extractions (re.match anchors at the start, so the
\* expression that starts with \s never matches a stripped name) and
\* infrastructure terms
Rejected(name, noise) ==
    \/ Spell(name) \in noise
    \/ Len(Spell(name)) < 3
    \/ /\ Len(name) >= 2
       /\ \/ name[1].w \in malformed_prefixes
          \/ Len(WordChars[name[1].w]) <= 2
    \/ AnyIn(infrastructure_terms, name)

ComponentEntry(name, stereotype) ==
    [name |-> name, stereotype |-> stereotype, parent_package |-> NoName]

_add_component(cs, raw, stereotype) ==
    IF raw = NoName THEN cs
    ELSE     Let(_normalize_component_name(raw), LAMBDA name :
             Let(cs.components, LAMBDA comps :
             Let({i \in DOMAIN comps : \/ In(name, comps[i].name)
                                       \/ In(comps[i].name, name)}, LAMBDA hits :
             IF Rejected(name, noise_terms \cup actor_noise_terms) THEN cs
             ELSE IF hits = {}
             THEN [cs EXCEPT !.components = Append(@, ComponentEntry(name, stereotype))]
             ELSE     Let(comps[Min(hits)], LAMBDA old :
                      IF In(name, old.name)
                      THEN IF stereotype # None /\ old.stereotype = None
                           THEN [cs EXCEPT !.components[Min(hits)].stereotype = stereotype]
                           ELSE cs
                      ELSE [cs EXCEPT !.components =
                              DictSet(DictDel(@, old.name),
                                      ComponentEntry(name,
                                          IF stereotype # None THEN stereotype
                                          ELSE old.stereotype))]))))

db_words == {<<"s", "q", "l">>, <<"d", "a", "t", "a", "b", "a", "s", "e">>, <<"d", "b">>, <<"m", "o", "n", "g", "o">>, <<"p", "o", "s", "t", "g", "r", "e", "s">>, <<"m", "y", "s", "q", "l">>, <<"r", "e", "d", "i", "s">>, <<"c", "a", "c", "h", "e">>}
queue_words == {<<"q", "u", "e", "u", "e">>, <<"k", "a", "f", "k", "a">>, <<"r", "a", "b", "b", "i", "t">>, <<"m", "q">>}

\* one iteration of the loop of _extract_from_ner; the INTERFACE branch is
\* handled by the loop
ComponentEntity(cs, ent) ==
        Let(Strip(ent.text), LAMBDA entity_text :
        CASE ent.label = "COMPONENT" ->
                _add_component(cs, normalize_component_name(entity_text, nCfg),
                               _infer_stereotype(entity_text))
          [] ent.label = "EXTERNAL_SYSTEM" ->
                [cs EXCEPT !.external_systems =
                    @ \cup {normalize_external_system(entity_text, nCfg)}]
          [] ent.label = "TECHNOLOGY" ->
                _add_component(cs, normalize_component_name(entity_text, nCfg),
                    IF AnyIn(db_words, entity_text) THEN "database"
                    ELSE IF AnyIn(queue_words, entity_text) THEN "queue"
                    ELSE _infer_stereotype(entity_text))
          [] OTHER -> cs)

\* a loop "for x in s: acc = Op(acc, x)"; each iteration is completed
\* before the next one starts
FoldSeq(Op(_, _), base, s) ==
    LET RECURSIVE fold(_, _)
        fold(acc, i) ==
            IF i > Len(s) THEN acc
            ELSE     Let(Op(acc, s[i]), LAMBDA next :
                     IF next = next THEN fold(next, i + 1) ELSE acc)
    IN  fold(base, 1)

\* the stereotypes of the model are single words, so "w in stereotype" is
\* an equality
\* ComponentDiagramExtractor._extract_from_ner: self.interfaces is a dict, so
\* self.interfaces.add raises AttributeError at the first INTERFACE entity
Component_extract_from_ner(cs, ents) ==
    FoldSeq(LAMBDA acc, ent :
                IF acc.raised THEN acc
                ELSE IF ent.label = "INTERFACE" THEN [acc EXCEPT !.raised = TRUE]
                ELSE [acc EXCEPT !.cs = ComponentEntity(acc.cs, ent)],
            [cs |-> cs, raised |-> FALSE], ents)

\* the first component, then the first external system, whose name is in
\* the text
_find_component_in_text(cs, text) ==
        Let(Keys(cs.components) \o IterNames(cs.external_systems, hashSeed), LAMBDA names :
        Let({i \in DOMAIN names : In(names[i], text)}, LAMBDA hits :
        IF hits = {} THEN NoName ELSE names[Min(hits)]))

\* raw.split(' w ')[0] for each w of ws in turn
RECURSIVE SplitAt(_, _)
SplitAt(raw, ws) ==
    IF ws = <<>> THEN raw
    ELSE     Let({i \in 2..(Len(raw) - 1) :
                     raw[i].w = Head(ws) /\ raw[i].sp = 1 /\ raw[i + 1].sp = 1}, LAMBDA cuts :
             SplitAt(IF cuts = {} THEN raw ELSE SubSeq(raw, 1, Min(cuts) - 1),
                     Tail(ws)))

Interface == <<Ti("interface")>>

_clean_interface_name(raw0) ==
        Let(Strip(RemoveWords(raw0, {"api", "endpoint", "interface"}, 0)), LAMBDA raw :
        IF raw = <<>> THEN Interface
        ELSE _normalize_component_name(
                 SplitAt(raw, <<"using", "to", "from", "via", "with">>)))

_add_interface(cs, name, type_, comp_name, raw_name) ==
    IF name = NoName \/ Len(Spell(name)) < 2 THEN cs
    ELSE     Let(IF HasKey(cs.interfaces, name) THEN cs.interfaces
                 ELSE Append(cs.interfaces,
                             [name |-> name, provider |-> NoName,
                              consumers |-> <<>>]), LAMBDA ifs :
             Let(KeyIndex(ifs, name), LAMBDA k :
             [cs EXCEPT
                !.components = DictDel(DictDel(@, name), raw_name),
                !.interfaces =
                    IF type_ = "provided"
                    THEN [ifs EXCEPT ![k].provider = comp_name]
                    ELSE IF type_ = "required"
                    THEN [ifs EXCEPT ![k].consumers = Append(@, comp_name)]
                    ELSE ifs]))

\* the text behind the first of the verbs, an article skipped: group 3 of
\* r'(v1|v2)\s+((?:an?|the)\s+)?(.+?)(?:\.|,|$)'; NoName if there is no match
AfterVerb(text, verbs, articles) ==
        Let(ReSearch(<<Lit(verbs), LitOpt(Alt(articles)), Grp(1, Len(text))>>,
                     Words(text), 1), LAMBDA m :
        IF m.ok THEN Group(text, m, 1) ELSE NoName)

\* one iteration of the loop of _extract_interfaces
InterfacesOfSentence(cs, sent) ==
        Let(_find_component_in_text(cs, sent), LAMBDA comp_name :
        Let(AfterVerb(sent, Alt(<<"exposes", "provides", "offers", "implements">>),
                      <<"an", "a", "the">>), LAMBDA provided :
        Let(AfterVerb(sent, <<<<"requires">>, <<"consumes">>,
                              <<"depends", "on">>, <<"needs">>>>,
                      <<"an", "a", "the">>), LAMBDA required :
        Let(IF provided = NoName THEN cs
            ELSE _add_interface(cs, _clean_interface_name(provided),
                                "provided", comp_name, provided), LAMBDA cs1 :
        IF comp_name = NoName THEN cs
        ELSE IF required = NoName THEN cs1
        ELSE _add_interface(cs1, _clean_interface_name(required), "required",
                            comp_name, required)))))

\* one iteration of the loop of _extract_packages
PackagesOfSentence(cs, sent) ==
        Let(_find_component_in_text(cs, sent), LAMBDA comp_name :
        Let(AfterVerb(sent, <<<<"part", "of">>, <<"contained", "in">>,
                              <<"inside">>>>, <<"a", "an", "the">>), LAMBDA inner :
        Let(AnyIn({<<"p", "a", "r", "t", " ", "o", "f">>, <<"c", "o", "n", "t", "a", "i", "n", "e", "d", " ", "i", "n">>}, sent)
               /\ comp_name # NoName /\ inner # NoName, LAMBDA part_of :
        Let(_normalize_component_name(inner), LAMBDA package_name :
        Let(IF ~part_of \/ package_name = NoName THEN cs
            ELSE     Let(IF HasKey(cs.packages, package_name)
                         THEN cs.packages
                         ELSE Append(cs.packages,
                                     [name |-> package_name,
                                      members |-> <<>>]), LAMBDA pk :
                     Let(KeyIndex(pk, package_name), LAMBDA k :
                     Let(IF HasKey(cs.components, package_name)
                         THEN DictDel(cs.components, package_name)
                         ELSE DictDel(cs.components, Strip(inner)), LAMBDA comps :
                     [cs EXCEPT
                        !.packages = [pk EXCEPT ![k].members = Append(@, comp_name)],
                        !.components =
                            [i \in DOMAIN comps |->
                                IF comps[i].name = comp_name
                                THEN [comps[i] EXCEPT !.parent_package = package_name]
                                ELSE comps[i]]]))), LAMBDA cs1 :
        \* r'^(.+?)\s+(contains|includes)\s+(.+?)(?:\.|,|$)': the first verb
        \* that has a word on either side
        Let({i \in 2..(Len(sent) - 1) : sent[i].w \in {"contains", "includes"}}, LAMBDA verbs :
        Let(Min(verbs \cup {Len(sent)}), LAMBDA verb :
        Let(Strip(SubSeq(sent, 1, verb - 1)), LAMBDA pkg_raw :
        Let(SubSeq(sent, verb + 1, Len(sent)), LAMBDA content_raw :
        Let(/\ verbs # {}
            /\ AnyIn({<<"m", "o", "d", "u", "l", "e">>, <<"l", "a", "y", "e", "r">>, <<"p", "a", "c", "k", "a", "g", "e">>, <<"s", "u", "b", "s", "y", "s", "t", "e", "m">>, <<"s", "y", "s", "t", "e", "m">>},
                     pkg_raw), LAMBDA is_pkg :
        Let(_normalize_component_name(pkg_raw), LAMBDA pkg_name :
        IF ~is_pkg THEN cs1
        ELSE     Let(IF HasKey(cs1.packages, pkg_name) THEN cs1.packages
                     ELSE Append(cs1.packages,
                                 [name |-> pkg_name, members |-> <<>>]), LAMBDA pk :
                 Let(KeyIndex(pk, pkg_name), LAMBDA k :
                 Let(IF HasKey(cs1.components, pkg_name)
                     THEN DictDel(cs1.components, pkg_name)
                     ELSE DictDel(cs1.components, pkg_raw), LAMBDA comps :
                 Let(SelectSeq(Keys(comps), LAMBDA c : In(c, content_raw)), LAMBDA known :
                 [cs1 EXCEPT
                    !.packages = [pk EXCEPT ![k].members = @ \o known],
                    !.components =
                        [i \in DOMAIN comps |->
                            IF In(comps[i].name, content_raw)
                            THEN [comps[i] EXCEPT !.parent_package = pkg_name]
                            ELSE comps[i]]])))))))))))))))

port_numbers == {"p8080"}

\* one iteration of the first loop of _extract_ports
PortsOfSentence(cs, sent) ==
        Let(_find_component_in_text(cs, sent), LAMBDA comp_name :
        Let({i \in 1..(Len(sent) - 2) :
                /\ sent[i].w \in {"via", "on", "has", "at", "defines"}
                /\ sent[i + 1].w = "port"
                /\ sent[i + 2].w \in port_numbers}, LAMBDA hits :
        IF ~AnyIn({<<"p", "o", "r", "t">>}, sent) \/ comp_name = NoName \/ hits = {} THEN cs
        ELSE     Let(IF HasKey(cs.ports, comp_name) THEN cs.ports
                     ELSE Append(cs.ports, [name |-> comp_name, ports |-> <<>>]), LAMBDA pt :
                 Let(KeyIndex(pt, comp_name), LAMBDA k :
                 [cs EXCEPT !.ports =
                    [pt EXCEPT ![k].ports = Append(@, sent[Min(hits) + 2].w)]]))))

\* the cleanup that ends _extract_ports: components named like "Port 8080"
DropPortComponents(cs) ==
    [cs EXCEPT !.components =
        SelectSeq(@, LAMBDA e : ~(/\ Len(e.name) = 2
                                  /\ e.name[1].w = "port"
                                  /\ e.name[2].w \in port_numbers))]

\* one iteration of one of the two loops of _fill_ner_gaps, for the match m
\* of r'\b(\w+(?:\s+\w+)?)\s+<keyword>\b' in one sentence: acc is
\* [cs, seen], seen the set ner_extracted of lower-case strings
FillGaps(acc, sent, m, keyword) ==
             Let(LowerName(sent), LAMBDA lower :
             Let(SubSeq(lower, m.groups[1][1], m.groups[1][2]), LAMBDA match :
             Let(match \o <<Lw(keyword)>>, LAMBDA full_name :
             Let(normalize_component_name(full_name, nCfg), LAMBDA normalized :
             Let(IF keyword = "service"
                 THEN {<<"t", "h", "e">>, <<"a">>, <<"a", "n">>, <<"t", "h", "i", "s">>, <<"t", "h", "a", "t">>, <<"e", "a", "c", "h">>, <<"e", "v", "e", "r", "y">>}
                 ELSE {<<"t", "h", "e">>, <<"a">>, <<"a", "n">>, <<"t", "h", "i", "s">>, <<"t", "h", "a", "t">>, <<"r", "e", "s", "t">>, <<"r", "e", "s", "t", "f", "u", "l">>}, LAMBDA skip :
             Let(/\ Spell(full_name) \notin acc.seen
                 /\ Spell(normalized) \notin acc.seen
                 /\ Spell(Strip(match)) \notin skip, LAMBDA add :
             IF ~add THEN acc
             ELSE [cs |-> _add_component(acc.cs, normalized,
                                         IF keyword = "service"
                                         THEN _infer_stereotype(full_name)
                                         ELSE "backend"),
                   seen |-> acc.seen \cup {Spell(normalized)}]))))))

FillGapsIn(acc, sents, keyword) ==
    FoldSeq(LAMBDA a1, sent :
                FoldSeq(LAMBDA a2, m : FillGaps(a2, sent, m, keyword), a1,
                        ReFindAll(<<Grp(1, 2), Lit(Alt(<<keyword>>))>>,
                                  Words(sent), 1)),
            acc, sents)

_fill_ner_gaps(cs, narration) ==
        Let(narration.ents, LAMBDA ents :
        Let(
            {Spell(ents[i].text) : i \in DOMAIN ents}
            \cup {Spell(normalize_component_name(ents[i].text, nCfg)) :
                     i \in {j \in DOMAIN ents : ents[j].label = "COMPONENT"}}
            \cup {Spell(cs.components[i].name) : i \in DOMAIN cs.components}, LAMBDA ner_extracted :
        Let(FillGapsIn([cs |-> cs, seen |-> ner_extracted],
                       narration.sents, "service"), LAMBDA services :
        FillGapsIn(services, narration.sents, "api").cs)))

\* _extract_interfaces, _extract_packages, _extract_ports and _fill_ner_gaps,
\* each over all sentences
OverSentences(cs, sents, step) ==
    FoldSeq(LAMBDA acc, sent :
                CASE step = "interfaces" -> InterfacesOfSentence(acc, sent)
                  [] step = "packages" -> PackagesOfSentence(acc, sent)
                  [] step = "ports" -> PortsOfSentence(acc, sent),
            cs, sents)

ComponentPatterns(cs, narration) ==
    _fill_ner_gaps(
        DropPortComponents(
            OverSentences(
                OverSentences(
                    OverSentences(cs, narration.sents, "interfaces"),
                    narration.sents, "packages"),
                narration.sents, "ports")),
        narration)

StereotypeHas(stereotype, w) == stereotype = w

(***************************************************************************)
(* ComponentDiagramExtractor._extract_relationships                        *)
(***************************************************************************)
Component_relationship_patterns == <<
    [re |-> <<Grp(1, 4), Lit(Alt(<<"sends", "send">>)),
              Lit(Alt(<<"requests", "request", "data", "messages", "message">>)),
              Lit(Alt(<<"to">>)), Grp(1, 4)>>,
     type |-> "sends to"],
    [re |-> <<Grp(1, 4),
              Lit(Alt(<<"stores", "store", "persists", "persist", "saves", "save">>)),
              LitOpt(Alt(<<"data">>)), Lit(Alt(<<"in", "to">>)),
              LitOpt(Alt(<<"an", "a">>)), Grp(1, 4)>>,
     type |-> "stores in"],
    [re |-> <<Grp(1, 4),
              Lit(<<<<"reads">>, <<"read">>, <<"writes">>, <<"write">>,
                    <<"reads", "and", "writes">>, <<"reads", "and", "write">>,
                    <<"read", "and", "writes">>, <<"read", "and", "write">>>>),
              LitOpt(Alt(<<"data">>)), Lit(Alt(<<"to", "from">>)), Grp(1, 4)>>,
     type |-> "uses"],
    [re |-> <<Grp(1, 4),
              Lit(Alt(<<"communicates", "communicate", "interacts", "interact">>)),
              Lit(Alt(<<"with">>)), LitOpt(Alt(<<"an", "a">>)),
              LitOpt(Alt(<<"external">>)), Grp(1, 4)>>,
     type |-> "communicates with"],
    [re |-> <<Grp(1, 4),
              Lit(Alt(<<"uses", "use", "leverages", "leverage", "utilizes", "utilize">>)),
              LitOpt(Alt(<<"an", "a">>)), Grp(1, 4)>>,
     type |-> "uses"],
    [re |-> <<Grp(1, 4), Lit(Alt(<<"depends", "depend">>)), Lit(Alt(<<"on">>)),
              Grp(1, 4)>>,
     type |-> "depends on"],
    [re |-> <<Grp(1, 4), Lit(Alt(<<"connects", "connect">>)), Lit(Alt(<<"to">>)),
              Grp(1, 4)>>,
     type |-> "connects to"],
    [re |-> <<Grp(1, 4),
              Lit(<<<<"accesses">>, <<"accesse">>, <<"connects", "to">>,
                    <<"connect", "to">>>>),
              Grp(1, 4)>>,
     type |-> "accesses"],
    [re |-> <<Grp(1, 4),
              Lit(Alt(<<"interacts", "interact", "communicates", "communicate",
                        "uses", "use">>)),
              LitOpt(Alt(<<"with">>)), Grp(1, 4), Lit(Alt(<<"via", "through">>)),
              LitOpt(Alt(<<"a", "an", "the">>)), Grp(1, 4)>>,
     type |-> "via"],
    [re |-> <<Grp(1, 4), Lit(Alt(<<"uses">>)), LitOpt(Alt(<<"the">>)), Grp(1, 4),
              Lit(Alt(<<"to">>)), Grp(1, 1)>>,
     type |-> "uses"] >>

protocols == <<
    [sub |-> <<"h", "t", "t", "p">>, tag |-> "<<HTTP>>"], [sub |-> <<"h", "t", "t", "p", "s">>, tag |-> "<<HTTPS>>"],
    [sub |-> <<"g", "r", "p", "c">>, tag |-> "<<GRPC>>"], [sub |-> <<"j", "d", "b", "c">>, tag |-> "<<JDBC>>"],
    [sub |-> <<"a", "m", "q", "p">>, tag |-> "<<AMQP>>"], [sub |-> <<"t", "c", "p">>, tag |-> "<<TCP>>"],
    [sub |-> <<"u", "d", "p">>, tag |-> "<<UDP>>"], [sub |-> <<"r", "e", "s", "t">>, tag |-> "<<REST>>"],
    [sub |-> <<"g", "r", "a", "p", "h", "q", "l">>, tag |-> "<<GRAPHQL>>"], [sub |-> <<"s", "o", "a", "p">>, tag |-> "<<SOAP>>"],
    [sub |-> <<"w", "e", "b", "s", "o", "c", "k", "e", "t">>, tag |-> "<<WEBSOCKET>>"] >>

\* an entry of self.relationships / self.deployment_relationships; a type
\* "interacts <<HTTP>>" is the sequence of its two parts
Rel(source, target, type) == [source |-> source, target |-> target, type |-> type]

_find_best_component_match(cs, text) ==
        Let(Strip(RemoveWords(LowerName(text),
                              {"the", "a", "an", "this", "that"}, 0)), LAMBDA text_lower :
        Let(Keys(cs.components), LAMBDA names :
        Let({i \in DOMAIN names : In(names[i], text_lower)}, LAMBDA hits :
        Let(IterNames(cs.external_systems, hashSeed), LAMBDA exts :
        Let({i \in DOMAIN exts : In(exts[i], text_lower)}, LAMBDA ehits :
        Let(_normalize_component_name(text), LAMBDA normalized :
        IF hits # {} THEN names[Min(hits)]
        ELSE IF ehits # {} THEN exts[Min(ehits)]
        ELSE IF HasKey(cs.components, normalized)
                \/ normalized \in cs.external_systems THEN normalized
        ELSE NoName))))))

\* the helper _is_db of _extract_relationships
_is_db(stype, name) ==
    IF stype = None /\ name = NoName THEN FALSE
    ELSE \/ stype # None /\ StereotypeHas(stype, "database")
         \/ /\ name # NoName
            /\ AnyIn({<<"p", "o", "s", "t", "g", "r", "e", "s">>, <<"m", "y", "s", "q", "l">>, <<"r", "e", "d", "i", "s">>, <<"m", "o", "n", "g", "o", "d", "b">>, <<"d", "a", "t", "a", "b", "a", "s", "e">>}, name)

\* the protocol named after 'via', 'using' or 'through'
MatchProtocol(sent, m) ==
        Let(IF Len(m.groups) >= 3 THEN Group(sent, m, 3) ELSE NoName, LAMBDA via_text :
        Let({i \in DOMAIN protocols :
                StrContains(Spell(via_text), protocols[i].sub)}, LAMBDA phits :
        IF via_text = NoName \/ phits = {} THEN None
        ELSE protocols[Min(phits)].tag))

\* "_find_best_component_match(text)" and, if it found nothing, the fallback
\* "for comp_name in self.components: if comp_name.lower() in
\* sentence.lower() and comp_name.lower() in text.lower()"
MatchEndpoint(cs, sent, text) ==
        Let(Keys(cs.components), LAMBDA names :
        Let(_find_best_component_match(cs, text), LAMBDA found :
        Let({i \in DOMAIN names : In(names[i], sent) /\ In(names[i], text)}, LAMBDA hits :
        IF found = NoName /\ hits # {} THEN names[Min(hits)] ELSE found)))

\* the heuristic additions of the target and then of the source; the result
\* is [cs, source_comp, target_comp]
HeuristicEndpoints(cs, pat, source_text, target_text, source1, target1) ==
        Let(pat.type \in {"via", "communicates with", "uses"}, LAMBDA heuristic :
        Let(_normalize_component_name(target_text), LAMBDA norm_target :
        Let(/\ target1 = NoName /\ heuristic /\ target_text # NoName
            /\ FirstUpper(target_text) /\ Len(Spell(target_text)) > 3
            /\ ~HasKey(cs.components, norm_target), LAMBDA add_target :
        Let(IF add_target
            THEN _add_component(cs, norm_target,
                                _infer_stereotype(target_text))
            ELSE cs, LAMBDA cs1 :
        Let(_normalize_component_name(source_text), LAMBDA norm_source :
        Let(/\ source1 = NoName /\ heuristic /\ source_text # NoName
            /\ FirstUpper(source_text) /\ Len(Spell(source_text)) > 3
            /\ Spell(norm_source) \notin {<<"t", "h", "e">>, <<"t", "h", "i", "s">>, <<"s", "y", "s", "t", "e", "m">>}
            /\ ~HasKey(cs1.components, norm_source), LAMBDA add_source :
        [cs |-> IF add_source
                THEN _add_component(cs1, norm_source,
                                    _infer_stereotype(source_text))
                ELSE cs1,
         source_comp |-> IF add_source THEN norm_source ELSE source1,
         target_comp |-> IF add_target THEN norm_target ELSE target1]))))))

\* "if source_comp and target_comp: ... if not exists:
\* self.relationships.append(...)" with the description and the protocol
DescribedRelationship(rels, pat, protocol, source_comp, target_comp) ==
        Let((IF pat.type = "via" THEN <<"interacts">> ELSE <<pat.type>>)
            \o (IF protocol # None THEN <<protocol>> ELSE <<>>), LAMBDA description :
        IF /\ source_comp # NoName /\ target_comp # NoName
           /\ source_comp # target_comp
           /\ ~\E i \in DOMAIN rels :
                  /\ rels[i].source = source_comp
                  /\ rels[i].target = target_comp
                  /\ rels[i].type = description
        THEN Append(rels, Rel(source_comp, target_comp, description))
        ELSE rels)

\* the database-to-database guard and the append that follows it; the
\* result is [relationships, dropped], dropped telling that the guard ran
\* its "continue"
GuardedRelationship(comps, rels1, sent, pat, source_comp, target_comp) ==
    LET stereotype_of(name) ==
            IF name # NoName /\ HasKey(comps, name)
            THEN comps[KeyIndex(comps, name)].stereotype ELSE None
    IN  Let(source_comp # NoName /\ target_comp # NoName, LAMBDA both :
        Let(/\ both
            /\ _is_db(stereotype_of(source_comp), source_comp)
            /\ _is_db(stereotype_of(target_comp), target_comp), LAMBDA db_db :
        Let({i \in DOMAIN comps :
                /\ In(comps[i].name, sent)
                /\ comps[i].name \notin {source_comp, target_comp}
                /\ \/ AnyIn({<<"s", "e", "r", "v", "i", "c", "e">>, <<"a", "p", "i">>}, comps[i].name)
                   \/ /\ comps[i].stereotype # None
                      /\ StereotypeHas(comps[i].stereotype, "backend")}, LAMBDA services :
        Let(db_db /\ services = {}, LAMBDA dropped :
        Let(IF db_db /\ services # {} THEN comps[Min(services)].name
            ELSE source_comp, LAMBDA subject :
        [relationships |->
             IF /\ ~dropped /\ both /\ subject # target_comp
                /\ ~\E i \in DOMAIN rels1 :
                       /\ rels1[i].source = subject
                       /\ rels1[i].target = target_comp
             THEN Append(rels1, Rel(subject, target_comp, <<pat.type>>))
             ELSE rels1,
         dropped |-> dropped])))))

\* the body of "for match in matches" of _extract_relationships.  acc is
\* [cs, drops]; drops collects the (source, target) pairs for which the
\* database-to-database guard ran its "continue"
ComponentRelationshipOfMatch(acc, sent, pat, m) ==
        Let(Group(sent, m, 1), LAMBDA source_text :
        Let(Group(sent, m, 2), LAMBDA target_text :
        Let(HeuristicEndpoints(acc.cs, pat, source_text, target_text,
                               MatchEndpoint(acc.cs, sent, source_text),
                               MatchEndpoint(acc.cs, sent, target_text)), LAMBDA ends :
        Let(DescribedRelationship(ends.cs.relationships, pat,
                                  MatchProtocol(sent, m),
                                  ends.source_comp, ends.target_comp), LAMBDA rels1 :
        Let(GuardedRelationship(ends.cs.components, rels1, sent, pat,
                                ends.source_comp, ends.target_comp), LAMBDA guarded :
        [cs |-> [ends.cs EXCEPT !.relationships = guarded.relationships],
         drops |-> IF guarded.dropped
                   THEN acc.drops \cup {<<ends.source_comp, ends.target_comp>>}
                   ELSE acc.drops])))))

\* "for sentence in sentences: for pattern, rel_type in relationship_patterns:
\*  for match in re.finditer(pattern, sentence, re.IGNORECASE)"
PatternPass(OfMatch(_, _, _, _), acc0, sents, pats) ==
    FoldSeq(LAMBDA a1, sent :
                FoldSeq(LAMBDA a2, pat :
                            FoldSeq(LAMBDA a3, m : OfMatch(a3, Strip(sent), pat, m),
                                    a2, ReFindAll(pat.re, Words(sent), 1)),
                        a1, pats),
            acc0, sents)

_extract_relationships(cs, narration) ==
    PatternPass(ComponentRelationshipOfMatch, [cs |-> cs, drops |-> {}],
                narration.sents, Component_relationship_patterns)

(***************************************************************************)
(* ComponentDiagramExtractor._resolve_coreference and                      *)
(* _extract_relationships_nlp.  A node of the dependency tree is a record  *)
(* [text, chunk, propn]: the token, the noun chunk it lies in (NoName if   *)
(* it lies in none) and "pos_ == PROPN".                                   *)
(***************************************************************************)
SYSTEM_REF == <<Tok("SYSTEM_REF", "upper", 1)>>
NoNode == [text |-> NoName, chunk |-> NoName, propn |-> FALSE]

\* the helper check_match of _resolve_coreference
check_match(cs, text) ==
        Let(Spell(text), LAMBDA t_low :
        Let(Keys(cs.components) \o Keys(cs.interfaces)
                \o IterNames(cs.external_systems, hashSeed), LAMBDA cands :
    LET score(name) ==
                Let(Spell(name), LAMBDA n_low :
                IF n_low = t_low THEN 3
                ELSE IF StrEndsWith(n_low, t_low)
                     THEN (IF Len(t_low) > 2 THEN 2 ELSE 0)
                ELSE IF StrContains(n_low, t_low) /\ Len(t_low) > 3 THEN 1
                ELSE IF StrContains(t_low, n_low) /\ Len(n_low) > 3 THEN 1
                ELSE 0)
    IN  Let([i \in DOMAIN cands |-> score(cands[i])], LAMBDA scores :
        Let({i \in DOMAIN cands : scores[i] > 0}, LAMBDA scored :
        Let({i \in scored : \A j \in scored : scores[j] <= scores[i]}, LAMBDA best :
        IF Cardinality(best) = 1 THEN cands[CHOOSE i \in best : TRUE]
        ELSE NoName)))))

_resolve_coreference(cs, node) ==
    IF Spell(node.text) \in {<<"s", "y", "s", "t", "e", "m">>, <<"t", "h", "e", " ", "s", "y", "s", "t", "e", "m">>, <<"a", "p", "p", "l", "i", "c", "a", "t", "i", "o", "n">>, <<"i", "t">>, <<"t", "h", "i", "s">>}
    THEN SYSTEM_REF
    ELSE     Let(check_match(cs, node.text), LAMBDA match :
             IF match # NoName THEN match
             ELSE IF node.chunk # NoName /\ Spell(node.chunk) # Spell(node.text)
             THEN check_match(cs, node.chunk)
             ELSE NoName)

\* a node is resolved; a proper noun that resolves to nothing is taken for
\* a new component.  The result is [cs, name]
ResolveNode(cs, node) ==
        Let(_resolve_coreference(cs, node), LAMBDA found :
        Let(IF node.chunk # NoName
            THEN _normalize_component_name(node.chunk) ELSE node.text, LAMBDA phrase :
        IF found # NoName \/ ~node.propn THEN [cs |-> cs, name |-> found]
        ELSE IF phrase # NoName /\ FirstUpper(phrase) /\ Len(Spell(phrase)) > 2
        THEN [cs |-> IF HasKey(cs.components, phrase) THEN cs
                     ELSE _add_component(cs, phrase, "Component"),
              name |-> phrase]
        ELSE [cs |-> cs, name |-> NoName]))

\* "3. Add Relationships": one (target, rel_desc) pair
NlpRelationship(cs, source, hit) ==
    IF source = hit.target THEN cs
    ELSE IF HasKey(cs.interfaces, hit.target)
    THEN     Let(KeyIndex(cs.interfaces, hit.target), LAMBDA k :
             IF hit.lemma \in {"provide", "expose", "implement"}
             THEN [cs EXCEPT !.interfaces[k].provider = source]
             ELSE IF Has(cs.interfaces[k].consumers, source) THEN cs
             ELSE [cs EXCEPT !.interfaces[k].consumers = Append(@, source)])
    ELSE IF \E i \in DOMAIN cs.relationships :
                /\ cs.relationships[i].source = source
                /\ cs.relationships[i].target = hit.target
         THEN cs
         ELSE [cs EXCEPT !.relationships =
                  Append(@, Rel(source, hit.target, <<hit.desc>>))]

\* one interaction verb of _extract_relationships_nlp; acc is [cs, last],
\* last the variable last_subject
NlpVerb(acc, verb) ==
        Let(IF verb.subj = NoNode THEN [cs |-> acc.cs, name |-> NoName]
            ELSE ResolveNode(acc.cs, verb.subj), LAMBDA s :
        Let(IF /\ \/ s.name = SYSTEM_REF
                  \/ s.name = NoName /\ verb.subj = NoNode
               /\ acc.last # NoName
            THEN acc.last ELSE s.name, LAMBDA source :
        Let(FoldSeq(LAMBDA a, node :
                           Let(ResolveNode(a.cs, node), LAMBDA r :
                           [cs |-> r.cs,
                            hits |-> IF r.name \in {NoName, SYSTEM_REF} THEN a.hits
                                     ELSE Append(a.hits,
                                              [target |-> r.name,
                                               desc |-> node.desc,
                                               lemma |-> verb.lemma])]),
                    [cs |-> s.cs, hits |-> <<>>], verb.targets), LAMBDA t :
        IF source = NoName \/ source = SYSTEM_REF
        THEN [cs |-> t.cs, last |-> acc.last]
        ELSE [cs |-> FoldSeq(LAMBDA c, hit : NlpRelationship(c, source, hit),
                             t.cs, t.hits),
              last |-> source])))

_extract_relationships_nlp(cs, narration) ==
    FoldSeq(NlpVerb, [cs |-> cs, last |-> NoName], narration.deps).cs

(***************************************************************************)
(* ComponentDiagramExtractor._build_component_elements                     *)
(***************************************************************************)
generic_component_patterns == {
    [generic |-> <<"a", "p", "i", " ", "s", "e", "r", "v", "i", "c", "e">>, first |-> <<"a", "p", "i">>,
     keywords |-> {<<"p", "a", "y", "m", "e", "n", "t">>, <<"o", "r", "d", "e", "r">>, <<"u", "s", "e", "r">>, <<"a", "u", "t", "h">>, <<"p", "r", "o", "d", "u", "c", "t">>, <<"i", "n", "v", "e", "n", "t", "o", "r", "y">>, <<"s", "h", "i", "p", "p", "i", "n", "g">>}],
    [generic |-> <<"b", "a", "c", "k", "e", "n", "d", " ", "s", "e", "r", "v", "i", "c", "e">>, first |-> <<"b", "a", "c", "k", "e", "n", "d">>,
     keywords |-> {<<"p", "a", "y", "m", "e", "n", "t">>, <<"o", "r", "d", "e", "r">>, <<"u", "s", "e", "r">>, <<"a", "u", "t", "h">>, <<"p", "r", "o", "d", "u", "c", "t">>, <<"i", "n", "v", "e", "n", "t", "o", "r", "y">>, <<"s", "h", "i", "p", "p", "i", "n", "g">>}],
    [generic |-> <<"f", "r", "o", "n", "t", "e", "n", "d", " ", "s", "e", "r", "v", "i", "c", "e">>, first |-> <<"f", "r", "o", "n", "t", "e", "n", "d">>,
     keywords |-> {<<"e", "c", "o", "m", "m", "e", "r", "c", "e">>, <<"w", "e", "b">>, <<"a", "d", "m", "i", "n">>, <<"m", "o", "b", "i", "l", "e">>, <<"c", "u", "s", "t", "o", "m", "e", "r">>}],
    [generic |-> <<"s", "e", "r", "v", "i", "c", "e">>, first |-> <<"s", "e", "r", "v", "i", "c", "e">>,
     keywords |-> {<<"p", "a", "y", "m", "e", "n", "t">>, <<"o", "r", "d", "e", "r">>, <<"u", "s", "e", "r">>, <<"a", "u", "t", "h">>, <<"p", "r", "o", "d", "u", "c", "t">>, <<"i", "n", "v", "e", "n", "t", "o", "r", "y">>, <<"s", "h", "i", "p", "p", "i", "n", "g">>,
                   <<"e", "m", "a", "i", "l">>, <<"n", "o", "t", "i", "f", "i", "c", "a", "t", "i", "o", "n">>}],
    [generic |-> <<"g", "a", "t", "e", "w", "a", "y">>, first |-> <<"g", "a", "t", "e", "w", "a", "y">>,
     keywords |-> {<<"p", "a", "y", "m", "e", "n", "t">>, <<"a", "p", "i">>, <<"s", "t", "r", "i", "p", "e">>, <<"p", "a", "y", "p", "a", "l">>}],
    [generic |-> <<"p", "a", "y", "m", "e", "n", "t", " ", "g", "a", "t", "e", "w", "a", "y">>, first |-> <<"p", "a", "y", "m", "e", "n", "t">>,
     keywords |-> {<<"s", "t", "r", "i", "p", "e">>, <<"p", "a", "y", "p", "a", "l">>, <<"s", "q", "u", "a", "r", "e">>, <<"b", "r", "a", "i", "n", "t", "r", "e", "e">>}],
    [generic |-> <<"a", "p", "i", " ", "g", "a", "t", "e", "w", "a", "y">>, first |-> <<"a", "p", "i">>,
     keywords |-> {<<"k", "o", "n", "g">>, <<"a", "p", "i", "g", "e", "e">>, <<"a", "w", "s">>}] }

generic_terms == {
    [term |-> <<"p", "a", "y", "m", "e", "n", "t", " ", "g", "a", "t", "e", "w", "a", "y">>, brands |-> {<<"s", "t", "r", "i", "p", "e">>, <<"p", "a", "y", "p", "a", "l">>, <<"s", "q", "u", "a", "r", "e">>}],
    [term |-> <<"a", "u", "t", "h", " ", "s", "e", "r", "v", "i", "c", "e">>, brands |-> {<<"o", "k", "t", "a">>, <<"a", "u", "t", "h", "0">>, <<"c", "o", "g", "n", "i", "t", "o">>}],
    [term |-> <<"a", "p", "i", " ", "g", "a", "t", "e", "w", "a", "y">>, brands |-> {<<"k", "o", "n", "g">>, <<"a", "p", "i", "g", "e", "e">>}],
    [term |-> <<"m", "e", "s", "s", "a", "g", "e", " ", "q", "u", "e", "u", "e">>, brands |-> {<<"r", "a", "b", "b", "i", "t", "m", "q">>, <<"k", "a", "f", "k", "a">>}] }

WordSet(name) == {name[i].w : i \in DOMAIN name}

\* one iteration of "for comp_name, comp_data in self.components.items()"
BuildComponent(cs, all, comp) ==
        Let(SeqToSet(Keys(cs.components)) \cup cs.external_systems, LAMBDA others :
        Let(
            \E g \in generic_component_patterns :
                /\ Spell(comp.name) = g.generic
                /\ \E other \in others :
                      /\ Spell(other) # Spell(comp.name)
                      /\ AnyIn(g.keywords, other)
                      /\ AnyIn({g.first, <<"s", "e", "r", "v", "i", "c", "e">>, <<"g", "a", "t", "e", "w", "a", "y">>}, other), LAMBDA is_generic :
        Let({i \in DOMAIN all :
                /\ WordSet(comp.name) \subseteq WordSet(all[i].name)
                /\ WordSet(comp.name) # WordSet(all[i].name)}, LAMBDA supers :
        Let({i \in DOMAIN all :
                /\ WordSet(all[i].name) \subseteq WordSet(comp.name)
                /\ WordSet(all[i].name) # WordSet(comp.name)
                /\ \A j \in supers : i < j}, LAMBDA subs :
        Let([i \in DOMAIN all |-> i \notin subs], LAMBDA kept :
        Let(SelectSeq([i \in DOMAIN all |-> [e |-> all[i], keep |-> kept[i]]],
                      LAMBDA x : x.keep), LAMBDA rest :
        Let(cs.ports, LAMBDA pt :
        IF \/ Rejected(comp.name, noise_terms)
           \/ comp.stereotype \in {"<<server>>", "<<container>>", "<<device>>", "<<node>>"}
           \/ is_generic
        THEN all
        ELSE IF supers # {} THEN [i \in DOMAIN rest |-> rest[i].e]
        ELSE DictSet([i \in DOMAIN rest |-> rest[i].e],
                     [name |-> comp.name, stereotype |-> comp.stereotype,
                      parent_package |-> comp.parent_package,
                      ports |-> IF HasKey(pt, comp.name)
                                THEN pt[KeyIndex(pt, comp.name)].ports
                                ELSE <<>>]))))))))

\* one iteration of "for ext_sys in self.external_systems"
BuildExternal(all, ext_sys) ==
    LET shorter(a, b) == In(a, b) /\ Len(Spell(a)) < Len(Spell(b))
    IN  Let({i \in DOMAIN all : \/ shorter(ext_sys, all[i].name)
                                \/ shorter(all[i].name, ext_sys)}, LAMBDA hits :
        Let(hits # {} /\ shorter(ext_sys, all[Min(hits)].name), LAMBDA skip :
        Let(IF hits # {} /\ ~skip THEN DictDel(all, all[Min(hits)].name)
            ELSE all, LAMBDA rest :
        Let(
            \E g \in generic_terms :
                /\ StrContains(Spell(ext_sys), g.term)
                /\ \E i \in DOMAIN rest : AnyIn(g.brands, rest[i].name), LAMBDA is_generic :
        IF skip THEN all
        ELSE IF is_generic THEN rest
        ELSE DictSet(rest, [name |-> ext_sys, stereotype |-> "<<external>>"])))))

Element(type, data) == [type |-> type, data |-> data, source_id |-> None]

\* the elements _build_component_elements appends to model_elements
_build_component_elements(cs) ==
        Let(FoldSeq(LAMBDA all, comp : BuildComponent(cs, all, comp),
                    <<>>, cs.components), LAMBDA regular :
        Let(FoldSeq(BuildExternal, regular,
                    IterNames(cs.external_systems, hashSeed)), LAMBDA all_components :
        [i \in DOMAIN all_components |-> Element("Component", all_components[i])]
        \o [i \in DOMAIN cs.relationships |->
               Element("ComponentRelationship", cs.relationships[i])]
        \o [i \in DOMAIN cs.interfaces |-> Element("Interface", cs.interfaces[i])]))

(***************************************************************************)
(* DeploymentDiagramExtractor.  The helpers work on a record ds of the     *)
(* registries of the instance: nodes is a dict of [name, stereotype],      *)
(* artifacts a dict of [name, node] (node = NoName until the artifact is   *)
(* assigned), devices and environments are sets of names.                  *)
(***************************************************************************)
Ds == [nodes |-> nodes, artifacts |-> artifacts, devices |-> devices,
       environments |-> environments,
       deployment_relationships |-> deployment_relationships]

_normalize_node_name(name) == normalize_node_name(name, nCfg)

_infer_node_stereotype(text) ==
        Let(tech_mappings.stereotypes, LAMBDA tm :
        Let({i \in DOMAIN tm : In(tm[i].tech, text)}, LAMBDA hits :
        IF hits = {} THEN "<<server>>" ELSE tm[Min(hits)].stereotype))

_add_node(ds, name, stereotype) ==
    IF name # NoName /\ ~HasKey(ds.nodes, name)
    THEN [ds EXCEPT !.nodes =
             Append(@, [name |-> name,
                        stereotype |-> IF stereotype = None THEN "<<server>>"
                                       ELSE stereotype])]
    ELSE ds

generic_noise ==
    {<<"s", "e", "r", "v", "i", "c", "e">>, <<"a", "p", "i">>, <<"a", "p", "p">>, <<"a", "p", "p", "l", "i", "c", "a", "t", "i", "o", "n">>, <<"s", "y", "s", "t", "e", "m">>, <<"m", "o", "d", "u", "l", "e">>, <<"c", "o", "m", "p", "o", "n", "e", "n", "t">>,
     <<"i", "n", "t", "e", "r", "f", "a", "c", "e">>, <<"f", "r", "o", "n", "t", "e", "n", "d">>, <<"b", "a", "c", "k", "e", "n", "d">>, <<"s", "e", "r", "v", "e", "r">>, <<"c", "l", "i", "e", "n", "t">>, <<"t", "h", "e">>, <<"a">>, <<"a", "n">>}

_is_valid_artifact(name) ==
    /\ name # NoName
    /\ Len(Spell(name)) >= 4
    /\ Spell(name) \notin generic_noise

\* self.artifacts[name] = None
ArtifactEntry(name) == [name |-> name, node |-> NoName]

\* one iteration of the loop of DeploymentDiagramExtractor._extract_from_ner
DeploymentEntity(ds, ent) ==
    CASE ent.label = "NODE" ->
            _add_node(ds, normalize_node_name(ent.text, nCfg),
                      _infer_node_stereotype(ent.text))
      [] ent.label = "DEVICE" ->
            [ds EXCEPT !.devices = @ \cup {normalize_device_name(ent.text, nCfg)}]
      [] ent.label = "ARTIFACT" ->
                Let(normalize_component_name(ent.text, nCfg), LAMBDA artifact_name :
                IF _is_valid_artifact(artifact_name)
                THEN [ds EXCEPT !.artifacts = DictSet(@, ArtifactEntry(artifact_name))]
                ELSE ds)
      [] ent.label = "COMPONENT" ->
                Let(normalize_component_name(ent.text, nCfg), LAMBDA comp_name :
                IF ~AnyIn(db_words, ent.text) /\ _is_valid_artifact(comp_name)
                THEN [ds EXCEPT !.artifacts = DictSet(@, ArtifactEntry(comp_name))]
                ELSE ds)
      [] ent.label \in {"ENVIRONMENT", "ENVIRONMENT_TYPE"} ->
            [ds EXCEPT !.environments =
                @ \cup {normalize_environment_name(ent.text, nCfg)}]
      [] OTHER -> ds

Deployment_extract_from_ner(ds, ents) == FoldSeq(DeploymentEntity, ds, ents)

\* match.group(0) of an expression that starts with a group, in lower case
MatchText(sent, m) ==
    Strip(SubSeq(LowerName(sent), m.groups[1][1], m.next - 1))

StrStartsWith(s, pre) == Len(pre) <= Len(s) /\ SubSeq(s, 1, Len(pre)) = pre

\* re.search(rf'(\w+\s+)?{tech}(\s+\w+)?', sentence_lower).group(0).  The
\* technologies are words of the vocabulary and stand at the start of a
\* word of the sentence: the word in front of it, the technology, and the
\* word behind it if the technology is a whole word
TechText(sent, tech) ==
        Let({k \in DOMAIN sent :
                StrStartsWith(WordChars[sent[k].w], WordChars[tech[1].w])}, LAMBDA ks :
        Let(Min(ks), LAMBDA k :
        Let(LowerName(sent), LAMBDA low :
        IF ks = {} THEN NoName
        ELSE Strip((IF k > 1 THEN <<low[k - 1]>> ELSE <<>>)
                   \o <<[low[k] EXCEPT !.w = tech[1].w]>>
                   \o (IF sent[k].w = tech[1].w /\ k < Len(sent)
                       THEN <<low[k + 1]>> ELSE <<>>)))))

\* one iteration of "for sentence in sentences" of _extract_nodes_pattern
NodesOfSentence(ds, sent) ==
        Let(
            FoldSeq(LAMBDA d1, keyword :
                        FoldSeq(LAMBDA d2, m :
                                    _add_node(d2,
                                        _normalize_node_name(MatchText(sent, m)),
                                        _infer_node_stereotype(MatchText(sent, m))),
                                d1,
                                ReFindAll(<<Grp(0, 1), Lit(Alt(<<keyword>>))>>,
                                          Words(sent), 1)),
                    ds, tech_mappings.node_keywords), LAMBDA keywords :
        FoldSeq(LAMBDA d, t :
                    IF In(t.tech, sent) /\ TechText(sent, t.tech) # NoName
                    THEN _add_node(d, _normalize_node_name(TechText(sent, t.tech)),
                                   t.stereotype)
                    ELSE d,
                keywords, tech_mappings.stereotypes))

_extract_nodes_pattern(ds, narration) == FoldSeq(NodesOfSentence, ds, narration.sents)

device_noise_words ==
    {<<"c", "l", "i", "e", "n", "t">>, <<"u", "s", "i", "n", "g">>, <<"f", "o", "r">>, <<"w", "i", "t", "h">>, <<"f", "r", "o", "m">>, <<"t", "h", "e">>, <<"a", "n", "d">>, <<"s", "y", "s", "t", "e", "m">>}
device_prefixes ==
    {"for", "with", "using", "from", "and", "or", "the", "via", "through",
     "in", "on"}

\* the body of "for match in matches" of _extract_devices_pattern
DeviceOfMatch(ds, sent, m) ==
        Let(normalize_device_name(MatchText(sent, m), nCfg), LAMBDA device_name :
        IF \/ device_name = NoName
           \/ Len(Spell(device_name)) < 4
           \/ Spell(device_name) \in device_noise_words
           \/ Len(device_name) >= 2 /\ device_name[1].w \in device_prefixes
           \/ \E i \in DOMAIN ds.artifacts :
                 Spell(ds.artifacts[i].name) = Spell(device_name)
        THEN ds
        ELSE [ds EXCEPT !.devices = @ \cup {device_name}])

\* re.finditer over the whole text finds what it finds sentence by sentence
_extract_devices_pattern(ds, narration) ==
    FoldSeq(LAMBDA d1, keyword :
                FoldSeq(LAMBDA d2, sent :
                            FoldSeq(LAMBDA d3, m : DeviceOfMatch(d3, sent, m),
                                    d2,
                                    ReFindAll(<<Grp(0, 1), Lit(Alt(<<keyword>>)),
                                                Grp(0, 1)>>, Words(sent), 1)),
                        d1, narration.sents),
            ds, tech_mappings.device_keywords)

(***************************************************************************)
(* DeploymentDiagramExtractor._extract_deployment_relationships            *)
(***************************************************************************)
Deployment_relationship_patterns == <<
    [re |-> <<Grp(1, 4), Lit(Alt(<<"sends", "send">>)),
              Lit(Alt(<<"requests", "request", "data", "messages", "message">>)),
              Lit(Alt(<<"to">>)), Grp(1, 4)>>,
     type |-> "connects to"],
    [re |-> <<Grp(1, 4),
              Lit(<<<<"reads">>, <<"read">>, <<"writes">>, <<"write">>,
                    <<"reads", "and", "writes">>, <<"reads", "and", "write">>,
                    <<"read", "and", "writes">>, <<"read", "and", "write">>>>),
              LitOpt(Alt(<<"data">>)), Lit(Alt(<<"to", "from">>)), Grp(1, 4)>>,
     type |-> "accesses"],
    [re |-> <<Grp(1, 4),
              Lit(Alt(<<"communicates", "communicate", "interacts", "interact",
                        "connects", "connect">>)),
              Lit(Alt(<<"with", "to">>)), LitOpt(Alt(<<"an", "a">>)),
              LitOpt(Alt(<<"external">>)), Grp(1, 4)>>,
     type |-> "connects to"],
    [re |-> <<Grp(1, 4),
              Lit(Alt(<<"uses", "use", "leverages", "leverage", "utilizes", "utilize">>)),
              LitOpt(Alt(<<"an", "a">>)), Grp(1, 4)>>,
     type |-> "uses"],
    [re |-> <<Grp(1, 4),
              Lit(<<<<"is", "deployed">>, <<"deployed">>, <<"runs">>, <<"run">>,
                    <<"hosted">>>>),
              Lit(Alt(<<"in", "on", "inside">>)), Grp(1, 4)>>,
     type |-> "deployed on"],
    [re |-> <<Lit(Alt(<<"customers", "customer", "users", "user">>)),
              Lit(Alt(<<"interact", "access", "use">>)),
              LitOpt(Alt(<<"with">>)), LitOpt(Alt(<<"the">>)), Grp(1, 3),
              Lit(Alt(<<"using">>)), Grp(1, 3)>>,
     type |-> "accesses via"] >>

\* a.lower() == b.lower() or a.lower() in b.lower() or b.lower() in a.lower()
Near(a, b) == In(a, b) \/ In(b, a)

_find_deployment_entity(ds, text) ==
        Let(Strip(RemoveWords(LowerName(text),
                              {"the", "a", "an", "this", "that"}, 0)), LAMBDA text_lower :
        Let(Keys(ds.nodes), LAMBDA node_names :
        Let(IterNames(ds.devices, hashSeed), LAMBDA device_names :
        Let(Keys(ds.artifacts), LAMBDA artifact_names :
    LET first(names, t) ==
                Let({i \in DOMAIN names : Near(names[i], t)}, LAMBDA hits :
                IF hits = {} THEN NoName ELSE names[Min(hits)])
    IN  Let(_normalize_node_name(text), LAMBDA normalized_node :
        Let(normalize_device_name(text, nCfg), LAMBDA normalized_device :
        IF first(node_names, text_lower) # NoName THEN first(node_names, text_lower)
        ELSE IF first(device_names, text_lower) # NoName
        THEN first(device_names, text_lower)
        ELSE IF HasKey(ds.nodes, normalized_node) THEN normalized_node
        ELSE IF first(node_names, normalized_node) # NoName
        THEN first(node_names, normalized_node)
        ELSE IF normalized_device \in ds.devices THEN normalized_device
        ELSE IF first(device_names, normalized_device) # NoName
        THEN first(device_names, normalized_device)
        ELSE first(artifact_names, text_lower)))))))

\* the body of "for match in matches" of _extract_deployment_relationships
DeploymentRelationshipOfMatch(ds, sent, pat, m) ==
        Let(_find_deployment_entity(ds, Group(sent, m, 1)), LAMBDA source :
        Let(_find_deployment_entity(ds, Group(sent, m, 2)), LAMBDA target :
        Let(ds.deployment_relationships, LAMBDA rels :
        IF /\ source # NoName /\ target # NoName /\ source # target
           /\ ~\E i \in DOMAIN rels :
                  rels[i].source = source /\ rels[i].target = target
        THEN [ds EXCEPT !.deployment_relationships =
                 Append(@, Rel(source, target, <<pat.type>>))]
        ELSE ds)))

\* the first name of the list that contains one of the strings
FirstWith(names, subs) ==
        Let({i \in DOMAIN names : AnyIn(subs, names[i])}, LAMBDA hits :
        IF hits = {} THEN NoName ELSE names[Min(hits)])

\* "ALWAYS ensure devices have access relationships to the system"
DeviceAccess(ds) ==
        Let(ds.deployment_relationships, LAMBDA rels :
        Let(
            ds.devices \ {rels[i].source : i \in DOMAIN rels}, LAMBDA devices_without_relationships :
        Let(Keys(ds.artifacts), LAMBDA names :
        Let({i \in DOMAIN names :
                AnyIn({<<"f", "r", "o", "n", "t", "e", "n", "d">>, <<"a", "p", "p", "l", "i", "c", "a", "t", "i", "o", "n">>, <<"a", "p", "p">>}, names[i])}, LAMBDA front :
        Let(IF front = {} THEN NoName
            ELSE names[CHOOSE i \in front : \A j \in front : j <= i], LAMBDA frontend_artifact :
        Let(
            FirstWith(SelectSeq(names, LAMBDA n :
                          ~AnyIn({<<"f", "r", "o", "n", "t", "e", "n", "d">>, <<"a", "p", "p", "l", "i", "c", "a", "t", "i", "o", "n">>, <<"a", "p", "p">>}, n)),
                      {<<"s", "e", "r", "v", "i", "c", "e">>, <<"a", "p", "i">>, <<"b", "a", "c", "k", "e", "n", "d">>}), LAMBDA service_artifact :
        Let(IF frontend_artifact # NoName THEN frontend_artifact
            ELSE IF service_artifact # NoName THEN service_artifact
            ELSE FirstWith(Keys(ds.nodes), {<<"s", "e", "r", "v", "e", "r">>}), LAMBDA target :
        IF target = NoName THEN ds
        ELSE [ds EXCEPT !.deployment_relationships =
                 @ \o [i \in DOMAIN IterNames(devices_without_relationships, hashSeed) |->
                          Rel(IterNames(devices_without_relationships, hashSeed)[i],
                              target, <<"accesses">>)]])))))))

_extract_deployment_relationships(ds, narration) ==
    DeviceAccess(PatternPass(DeploymentRelationshipOfMatch, ds, narration.sents,
                             Deployment_relationship_patterns))

(***************************************************************************)
(* DeploymentDiagramExtractor._build_deployment_elements                   *)
(***************************************************************************)
container_on_server_patterns == <<
    <<Lit(Alt(<<"run", "runs", "running">>)), Lit(Alt(<<"in", "on">>)),
      Grp(0, 1), Lit(Alt(<<"containers", "container">>)), Lit(Alt(<<"on">>)),
      Grp(0, 1), Lit(Alt(<<"servers", "server">>))>>,
    <<Lit(Alt(<<"deployed">>)), Lit(Alt(<<"inside", "in", "on">>)), Grp(0, 1),
      Lit(Alt(<<"containers", "container">>))>>,
    <<Lit(Alt(<<"containers", "container">>)),
      Lit(Alt(<<"hosted", "deployed", "running">>)), Lit(Alt(<<"on">>)),
      Grp(0, 1), Lit(Alt(<<"servers", "server">>))>>,
    <<Lit(Alt(<<"docker", "kubernetes", "k8s">>)),
      Lit(<<<<"on">>, <<"running", "on">>>>), Grp(0, 1),
      Lit(Alt(<<"servers", "server">>))>> >>

\* containment_map, a dict child -> parent as a list of [name, parent]
ContainmentMap(ds, narration) ==
        Let(Keys(ds.nodes), LAMBDA node_names :
        Let(FirstWith(node_names, {<<"c", "o", "n", "t", "a", "i", "n", "e", "r">>, <<"d", "o", "c", "k", "e", "r">>}), LAMBDA container_node :
        Let(FirstWith(node_names, {<<"s", "e", "r", "v", "e", "r">>}), LAMBDA server_node :
        Let(\E s \in DOMAIN narration.sents :
                \E p \in DOMAIN container_on_server_patterns :
                    ReSearch(container_on_server_patterns[p],
                             Words(narration.sents[s]), 1).ok, LAMBDA stated :
        Let(IF stated /\ container_node # NoName /\ server_node # NoName
            THEN <<[name |-> container_node, parent |-> server_node]>>
            ELSE <<>>, LAMBDA first :
        Let(IF container_node # NoName THEN container_node ELSE server_node, LAMBDA parent :
        Let(SelectSeq(ds.nodes, LAMBDA n : n.stereotype = "<<database>>"), LAMBDA db_nodes :
        IF parent = NoName THEN first
        ELSE FoldSeq(LAMBDA map, db :
                         IF HasKey(map, db.name) THEN map
                         ELSE Append(map, [name |-> db.name, parent |-> parent]),
                     first, db_nodes))))))))

\* one pattern of one rule of the cross-collection rules; acc is
\* [ds, to_nodes, to_devices]
CrossCollection(acc, pattern, preferred) ==
        Let({n \in acc.to_nodes : AnyIn({pattern}, n)}, LAMBDA node_matches :
        Let({d \in acc.to_devices : AnyIn({pattern}, d)}, LAMBDA device_matches :
        Let(node_matches \cup device_matches, LAMBDA all_matches :
        Let(IterNames(all_matches \ acc.to_nodes, hashSeed), LAMBDA added :
        IF preferred = "nodes"
        THEN [ds |-> FoldSeq(LAMBDA d, match :
                                 _add_node(d, match,
                                           IF AnyIn({<<"b", "r", "o", "w", "s", "e", "r">>}, match)
                                           THEN "<<browser>>" ELSE "<<device>>"),
                             acc.ds, added),
              to_nodes |-> acc.to_nodes \cup all_matches,
              to_devices |-> acc.to_devices \ device_matches]
        ELSE [ds |-> [acc.ds EXCEPT !.nodes =
                         SelectSeq(@, LAMBDA n : n.name \notin node_matches)],
              to_nodes |-> acc.to_nodes \ node_matches,
              to_devices |-> acc.to_devices \cup all_matches]))))

WebBrowser == <<Ti("web"), Ti("browser")>>

\* consolidation that leaves a single browser device as it is named
ConsolidateSeveralBrowsers(devs) ==
        Let({d \in devs : AnyIn({<<"b", "r", "o", "w", "s", "e", "r">>}, d)}, LAMBDA browser_devices :
        IF Cardinality(browser_devices) <= 1 THEN devs
        ELSE (devs \ browser_devices) \cup {WebBrowser})

\* "Consolidate browser devices"
ConsolidateBrowsers(devs) ==
        Let({d \in devs : AnyIn({<<"b", "r", "o", "w", "s", "e", "r">>}, d)}, LAMBDA browser_devices :
        IF browser_devices = {} \/ browser_devices = {WebBrowser} THEN devs
        ELSE (devs \ browser_devices) \cup {WebBrowser})

\* artifact[:-1] of a name that ends in 's'
Singular(name) ==
        Let(Len(name), LAMBDA n :
        Let({v \in DOMAIN WordChars :
                WordChars[v] \o <<"s">> = WordChars[name[n].w]}, LAMBDA cands :
        IF cands = {} THEN NoName
        ELSE [name EXCEPT ![n].w = CHOOSE v \in cands : TRUE]))

generic_artifacts == {<<"a", "p", "i", " ", "s", "e", "r", "v", "i", "c", "e">>, <<"b", "a", "c", "k", "e", "n", "d", " ", "s", "e", "r", "v", "i", "c", "e">>, <<"t", "h", "e", " ", "s", "e", "r", "v", "i", "c", "e">>, <<"w", "e", "b", " ", "s", "e", "r", "v", "i", "c", "e">>}
specific_keywords ==
    {<<"p", "a", "y", "m", "e", "n", "t">>, <<"o", "r", "d", "e", "r">>, <<"u", "s", "e", "r">>, <<"a", "u", "t", "h">>, <<"n", "o", "t", "i", "f", "i", "c", "a", "t", "i", "o", "n">>, <<"i", "n", "v", "e", "n", "t", "o", "r", "y">>, <<"s", "h", "i", "p", "p", "i", "n", "g">>,
     <<"b", "i", "l", "l", "i", "n", "g">>, <<"e", "m", "a", "i", "l">>, <<"m", "e", "s", "s", "a", "g", "e">>}

\* "ARTIFACT DEDUPLICATION": the artifacts that stay
DedupeArtifacts(arts) ==
        Let(Keys(arts), LAMBDA names :
    LET plural(a) == /\ StrEndsWith(Spell(a), <<"s">>)
                     /\ ~StrEndsWith(Spell(a), <<"s", "s">>)
                     /\ Singular(a) # NoName
                     /\ HasKey(arts, Singular(a))
        generic(a) == /\ Spell(a) \in generic_artifacts
                      /\ \E i \in DOMAIN names :
                            /\ Spell(names[i]) # Spell(a)
                            /\ AnyIn(specific_keywords, names[i])
                            /\ AnyIn({<<"s", "e", "r", "v", "i", "c", "e">>, <<"a", "p", "i">>}, names[i])
    IN  SelectSeq(arts, LAMBDA e : ~(plural(e.name) \/ generic(e.name))))

\* the registries as _build_deployment_elements leaves them, and the
\* elements it appends to model_elements
_build_deployment_elements(ds0, narration) ==
        Let(ContainmentMap(ds0, narration), LAMBDA containment_map :
        Let(nCfg.cross_collection_rules, LAMBDA rules :
        Let(
            FoldSeq(LAMBDA a1, rule :
                        FoldSeq(LAMBDA a2, pattern :
                                    CrossCollection(a2, pattern, rule.preferred),
                                a1, rule.patterns),
                    [ds |-> ds0, to_nodes |-> SeqToSet(Keys(ds0.nodes)),
                     to_devices |-> ds0.devices],
                    rules), LAMBDA crossed :
        Let(crossed.ds.nodes, LAMBDA node_list :
        Let(ConsolidateBrowsers(crossed.to_devices), LAMBDA devs :
        Let(DedupeArtifacts(ds0.artifacts), LAMBDA kept :
        Let(FirstWith(Keys(node_list), {<<"c", "o", "n", "t", "a", "i", "n", "e", "r">>, <<"d", "o", "c", "k", "e", "r">>}), LAMBDA container_node :
        Let(IF container_node # NoName THEN container_node
            ELSE FirstWith(Keys(node_list), {<<"s", "e", "r", "v", "e", "r">>}), LAMBDA target_node :
        Let([i \in DOMAIN kept |->
                IF kept[i].node = NoName /\ target_node # NoName
                THEN [kept[i] EXCEPT !.node = target_node] ELSE kept[i]], LAMBDA arts :
        Let(
            SeqToSet(Keys(arts)) \cup SeqToSet(Keys(node_list)) \cup devs, LAMBDA all_valid_entities :
    LET valid(name) == \E e \in all_valid_entities : Near(name, e)
        redundant(rel) ==
            /\ rel.type = <<"deployed on">>
            /\ HasKey(arts, rel.source)
            /\     Let(arts[KeyIndex(arts, rel.source)].node, LAMBDA deployed_node :
                   deployed_node # NoName /\ Near(rel.target, deployed_node))
    IN  Let(IterNames(devs, hashSeed), LAMBDA device_list :
        Let(SelectSeq(arts, LAMBDA e : e.node = NoName), LAMBDA orphaned :
        Let(SelectSeq(ds0.deployment_relationships,
                      LAMBDA rel : /\ valid(rel.source) /\ valid(rel.target)
                                   /\ ~redundant(rel)), LAMBDA shown :
        [ds |-> [ds0 EXCEPT !.nodes = node_list, !.devices = devs,
                            !.artifacts = arts],
         elements |->
            [i \in DOMAIN node_list |->
                Element("Node",
                    [name |-> node_list[i].name,
                     stereotype |-> node_list[i].stereotype,
                     artifacts |-> Keys(SelectSeq(arts,
                                      LAMBDA e : e.node = node_list[i].name)),
                     children |-> Keys(SelectSeq(containment_map,
                                      LAMBDA e : e.parent = node_list[i].name))])]
            \o [i \in DOMAIN device_list |->
                   Element("Device",
                       [name |-> device_list[i],
                        stereotype |-> IF AnyIn({<<"b", "r", "o", "w", "s", "e", "r">>}, device_list[i])
                                       THEN "<<browser>>" ELSE "<<device>>"])]
            \o [i \in DOMAIN orphaned |-> Element("Artifact", [name |-> orphaned[i].name])]
            \o [i \in DOMAIN shown |-> Element("DeploymentRelationship", shown[i])]])))))))))))))

(***************************************************************************)
(* Inputs of the architecture extractors                                   *)
(***************************************************************************)
Narration(sents, ents, deps) ==
    [blank |-> FALSE, sents |-> sents, ents |-> ents, deps |-> deps]
NerEnt(label, text) == [label |-> label, text |-> text]
DepNode(text, chunk, propn) == [text |-> text, chunk |-> chunk, propn |-> propn]
Target(text, chunk, propn, desc) ==
    [text |-> text, chunk |-> chunk, propn |-> propn, desc |-> desc]
Verb(lemma, subj, targets) == [lemma |-> lemma, subj |-> subj, targets |-> targets]

PaymentService == <<Ti("payment"), Ti("service")>>
PostgreSQL == <<Br("postgresql")>>
Redis == <<Ti("redis")>>
RestApi == <<Up("rest"), Up("api")>>
Dashboard == <<Ti("dashboard")>>
GRPC == <<Br("grpc")>>
BillingModule == <<Ti("billing"), Ti("module")>>
Stripe == <<Ti("stripe")>>
PayPal == <<Br("paypal")>>
MobileBrowser == <<Ti("mobile"), Ti("browser")>>
LinuxServers == <<Ti("linux"), Lw("servers")>>
DockerContainers == <<Ti("docker"), Lw("containers")>>
Service == <<Ti("service")>>

\* an empty or blank narration text
NarrBlank == [blank |-> TRUE, sents |-> <<>>, ents |-> <<>>, deps |-> <<>>]

\* "Payment Service connects to PostgreSQL."
NarrService ==
    Narration(<<PaymentService \o <<Lw("connects"), Lw("to")>> \o PostgreSQL>>,
              <<NerEnt("COMPONENT", PaymentService), NerEnt("TECHNOLOGY", PostgreSQL)>>,
              <<Verb("connect", DepNode(Service, PaymentService, TRUE),
                     <<Target(PostgreSQL, PostgreSQL, TRUE, "connect to")>>)>>)

\* "PostgreSQL connects to Redis."
NarrDatabases ==
    Narration(<<PostgreSQL \o <<Lw("connects"), Lw("to")>> \o Redis>>,
              <<NerEnt("TECHNOLOGY", PostgreSQL), NerEnt("TECHNOLOGY", Redis)>>,
              <<Verb("connect", DepNode(PostgreSQL, PostgreSQL, TRUE),
                     <<Target(Redis, Redis, TRUE, "connect to")>>)>>)

\* "PostgreSQL connects to Redis for Payment Service."
NarrDatabasesService ==
    Narration(<<PostgreSQL \o <<Lw("connects"), Lw("to")>> \o Redis
                    \o <<Lw("for")>> \o PaymentService>>,
              <<NerEnt("TECHNOLOGY", PostgreSQL), NerEnt("TECHNOLOGY", Redis),
                NerEnt("COMPONENT", PaymentService)>>,
              <<Verb("connect", DepNode(PostgreSQL, PostgreSQL, TRUE),
                     <<Target(Redis, Redis, TRUE, "connect to")>>)>>)

\* "Payment Service exposes REST API.", the interface not recognized
NarrInterface ==
    Narration(<<PaymentService \o <<Lw("exposes")>> \o RestApi>>,
              <<NerEnt("COMPONENT", PaymentService)>>,
              <<Verb("expose", DepNode(Service, PaymentService, TRUE),
                     <<Target(<<Up("api")>>, RestApi, TRUE, "expose")>>)>>)

\* the same sentence, the interface recognized
NarrInterfaceEntity ==
    [NarrInterface EXCEPT
        !.ents = <<NerEnt("COMPONENT", PaymentService), NerEnt("INTERFACE", RestApi)>>]

\* "Dashboard uses Payment Service via gRPC on port 8080. Billing Module
\*  contains Payment Service. It uses Redis."
NarrVia ==
    Narration(<<Dashboard \o <<Lw("uses")>> \o PaymentService
                    \o <<Lw("via")>> \o GRPC
                    \o <<Lw("on"), Lw("port"), Lw("p8080")>>,
                BillingModule \o <<Lw("contains")>> \o PaymentService,
                <<Ti("it"), Lw("uses")>> \o Redis>>,
              <<NerEnt("COMPONENT", PaymentService), NerEnt("TECHNOLOGY", Redis)>>,
              <<Verb("use", DepNode(Dashboard, Dashboard, TRUE),
                     <<Target(Service, PaymentService, TRUE, "use"),
                       Target(GRPC, GRPC, TRUE, "use via")>>),
                Verb("use", DepNode(<<Ti("it")>>, <<Ti("it")>>, FALSE),
                     <<Target(Redis, Redis, TRUE, "use")>>)>>)

\* "Payment Service uses Stripe. Payment Service uses PayPal. Payment
\*  Service uses the Stripe Gateway."
NarrExternal ==
    Narration(<<PaymentService \o <<Lw("uses")>> \o Stripe,
                PaymentService \o <<Lw("uses")>> \o PayPal,
                PaymentService \o <<Lw("uses"), Lw("the")>> \o Stripe
                    \o <<Ti("gateway")>>>>,
              <<NerEnt("COMPONENT", PaymentService),
                NerEnt("EXTERNAL_SYSTEM", Stripe),
                NerEnt("EXTERNAL_SYSTEM", PayPal),
                NerEnt("COMPONENT", Stripe \o <<Ti("gateway")>>)>>,
              <<Verb("use", DepNode(Service, PaymentService, TRUE),
                     <<Target(Stripe, Stripe, TRUE, "use")>>),
                Verb("use", DepNode(Service, PaymentService, TRUE),
                     <<Target(PayPal, PayPal, TRUE, "use")>>)>>)

\* "Order uses Billing. Order Billing uses PostgreSQL.", the tagger marking
\* Order, Billing and Order Billing as components
OrderBilling == <<Ti("order"), Ti("billing")>>
NarrNested ==
    Narration(<<<<Ti("order"), Lw("uses"), Ti("billing")>>,
                OrderBilling \o <<Lw("uses")>> \o PostgreSQL>>,
              <<NerEnt("COMPONENT", <<Ti("order")>>),
                NerEnt("COMPONENT", <<Ti("billing")>>),
                NerEnt("COMPONENT", OrderBilling),
                NerEnt("TECHNOLOGY", PostgreSQL)>>,
              <<Verb("use", DepNode(<<Ti("order")>>, <<Ti("order")>>, TRUE),
                     <<Target(<<Ti("billing")>>, <<Ti("billing")>>, TRUE, "use")>>),
                Verb("use", DepNode(<<Ti("billing")>>, OrderBilling, TRUE),
                     <<Target(PostgreSQL, PostgreSQL, TRUE, "use")>>)>>)

ComponentNarrations ==
    {NarrBlank, NarrService, NarrDatabases, NarrDatabasesService, NarrInterface,
     NarrInterfaceEntity, NarrVia, NarrExternal, NarrNested}

\* "Users access the Payment Service using Web Browser. Payment Service runs
\*  in Docker containers on Linux servers."
NarrContainers ==
    Narration(<<<<Ti("users"), Lw("access"), Lw("the")>> \o PaymentService
                    \o <<Lw("using")>> \o WebBrowser,
                PaymentService \o <<Lw("runs"), Lw("in")>> \o DockerContainers
                    \o <<Lw("on")>> \o LinuxServers>>,
              <<NerEnt("COMPONENT", PaymentService), NerEnt("DEVICE", WebBrowser),
                NerEnt("NODE", DockerContainers), NerEnt("NODE", LinuxServers),
                NerEnt("ENVIRONMENT", <<Ti("docker")>>)>>,
              <<>>)

\* "Users access the Payment Service using Mobile Browser and desktop
\*  browser. Payment Service connects to PostgreSQL on the Linux server."
NarrBrowsers ==
    Narration(<<<<Ti("users"), Lw("access"), Lw("the")>> \o PaymentService
                    \o <<Lw("using")>> \o MobileBrowser
                    \o <<Lw("and"), Lw("desktop"), Lw("browser")>>,
                PaymentService \o <<Lw("connects"), Lw("to")>> \o PostgreSQL
                    \o <<Lw("on"), Lw("the"), Ti("linux"), Lw("server")>>>>,
              <<NerEnt("COMPONENT", PaymentService),
                NerEnt("ARTIFACT", <<Ti("payment"), Ti("services")>>),
                NerEnt("DEVICE", MobileBrowser),
                NerEnt("NODE", WebBrowser),
                NerEnt("NODE", PostgreSQL),
                NerEnt("ENVIRONMENT_TYPE", <<Ti("kubernetes")>>)>>,
              <<>>)

\* "Mobile Device connects to the Linux server."
NarrDevice ==
    Narration(<<<<Ti("mobile"), Ti("device"), Lw("connects"), Lw("to"),
                  Lw("the"), Ti("linux"), Lw("server")>>>>,
              <<NerEnt("DEVICE", <<Ti("mobile"), Ti("device")>>)>>,
              <<>>)

RedisServer == <<Ti("redis"), Ti("server")>>
RedisServers == <<Ti("redis"), Lw("servers")>>

\* "Payment Service connects to Redis Server."
NarrDatabaseServer ==
    Narration(<<PaymentService \o <<Lw("connects"), Lw("to")>>
                    \o RedisServer>>,
              <<NerEnt("COMPONENT", PaymentService),
                NerEnt("NODE", RedisServer)>>,
              <<>>)

\* "Payment Service runs in Docker containers on Redis servers."
NarrContainersOnDatabase ==
    Narration(<<PaymentService \o <<Lw("runs"), Lw("in")>> \o DockerContainers
                    \o <<Lw("on")>> \o RedisServers>>,
              <<NerEnt("COMPONENT", PaymentService),
                NerEnt("NODE", DockerContainers),
                NerEnt("NODE", RedisServers)>>,
              <<>>)

\* "Users access the Payment Service using Mobile Browser."
NarrMobileBrowser ==
    Narration(<<<<Ti("users"), Lw("access"), Lw("the")>> \o PaymentService
                    \o <<Lw("using")>> \o MobileBrowser>>,
              <<NerEnt("COMPONENT", PaymentService),
                NerEnt("DEVICE", MobileBrowser)>>,
              <<>>)

DeploymentNarrations ==
    {NarrBlank, NarrContainers, NarrBrowsers, NarrDevice, NarrDatabaseServer,
     NarrContainersOnDatabase, NarrMobileBrowser}

\* what __init__ keeps of technology_mappings.json
ComponentMappings ==
    [loaded |-> TRUE,
     stereotypes |-> <<[tech |-> <<Lw("postgresql")>>, stereotype |-> "database"],
                       [tech |-> <<Lw("service")>>, stereotype |-> "backend"],
                       [tech |-> <<Lw("dashboard")>>, stereotype |-> "frontend"]>>,
     node_keywords |-> <<>>, device_keywords |-> <<>>]
DeploymentMappings ==
    [loaded |-> TRUE,
     stereotypes |-> <<[tech |-> <<Lw("postgresql")>>, stereotype |-> "<<database>>"],
                       [tech |-> <<Lw("docker")>>, stereotype |-> "<<container>>"],
                       [tech |-> <<Lw("linux")>>, stereotype |-> "<<server>>"],
                       [tech |-> <<Lw("redis")>>, stereotype |-> "<<database>>"]>>,
     node_keywords |-> <<"server", "container">>,
     device_keywords |-> <<"browser", "mobile">>]
\* the file could not be read: tech_mappings stays {} and the keyword lists
\* are never assigned
FailedMappings ==
    [loaded |-> FALSE, stereotypes |-> <<>>, node_keywords |-> <<>>,
     device_keywords |-> <<>>]

(***************************************************************************)
(* extract() of the architecture extractors, cut at the calls it makes.    *)
(* The instance has an NER model.                                          *)
(***************************************************************************)
SetCs(cs) ==
    /\ components' = cs.components
    /\ external_systems' = cs.external_systems
    /\ relationships' = cs.relationships
    /\ interfaces' = cs.interfaces
    /\ packages' = cs.packages
    /\ ports' = cs.ports

SetDs(ds) ==
    /\ nodes' = ds.nodes
    /\ artifacts' = ds.artifacts
    /\ devices' = ds.devices
    /\ environments' = ds.environments
    /\ deployment_relationships' = ds.deployment_relationships

\* extract() is left by an exception
Raises(exception) ==
    Returns(<<[type |-> "raise", data |-> [name |-> exception],
               source_id |-> None]>>)

Goto(step) == pc' = step /\ UNCHANGED <<idx, returned>>

ArchFrame ==
    UNCHANGED <<kind, input, hashSeed, tech_mappings, normVars, found_classes,
                found_relationships>>

\* ComponentDiagramExtractor.extract: "if not narration_text or not
\* narration_text.strip(): return []"
ComponentExtractBlank ==
    /\ kind = "component" /\ pc = "idle" /\ Len(returned) < MaxRuns
    /\ input.blank
    /\ Returns(<<>>)
    /\ UNCHANGED <<model_elements, compVars, deplVars>>
    /\ ArchFrame

\* ComponentDiagramExtractor.extract, the assignments that follow the test
ComponentExtractBegin ==
    /\ kind = "component" /\ pc = "idle" /\ Len(returned) < MaxRuns
    /\ ~input.blank
    /\ model_elements' = <<>>
    /\ components' = <<>>
    /\ external_systems' = {}
    /\ relationships' = <<>>
    /\ interfaces' = <<>>
    /\ packages' = <<>>
    /\ ports' = <<>>
    /\ Goto("entities")
    /\ UNCHANGED deplVars
    /\ ArchFrame

\* _extract_from_ner, _extract_interfaces, _extract_packages, _extract_ports
\* and _fill_ner_gaps
ComponentEntities ==
    /\ kind = "component" /\ pc = "entities"
    /\ LET r == Component_extract_from_ner(Cs, input.ents)
       IN  IF r.raised
           THEN SetCs(r.cs) /\ Raises("AttributeError")
           ELSE SetCs(ComponentPatterns(r.cs, input)) /\ Goto("relationships")
    /\ UNCHANGED <<model_elements, deplVars>>
    /\ ArchFrame

ComponentRelationships ==
    /\ kind = "component" /\ pc = "relationships"
    /\ SetCs(_extract_relationships(Cs, input).cs)
    /\ Goto("nlp")
    /\ UNCHANGED <<model_elements, deplVars>>
    /\ ArchFrame

ComponentRelationshipsNlp ==
    /\ kind = "component" /\ pc = "nlp"
    /\ SetCs(_extract_relationships_nlp(Cs, input))
    /\ Goto("build")
    /\ UNCHANGED <<model_elements, deplVars>>
    /\ ArchFrame

\* _build_component_elements and "return self.model_elements"
ComponentBuild ==
    /\ kind = "component" /\ pc = "build"
    /\ model_elements' = model_elements \o _build_component_elements(Cs)
    /\ Returns(model_elements')
    /\ UNCHANGED <<compVars, deplVars>>
    /\ ArchFrame

\* DeploymentDiagramExtractor.extract: "return []" for a blank narration
DeploymentExtractBlank ==
    /\ kind = "deployment" /\ pc = "idle" /\ Len(returned) < MaxRuns
    /\ input.blank
    /\ Returns(<<>>)
    /\ UNCHANGED <<model_elements, compVars, deplVars>>
    /\ ArchFrame

\* DeploymentDiagramExtractor.extract, the assignments that follow the test;
\* component_artifacts is not given
DeploymentExtractBegin ==
    /\ kind = "deployment" /\ pc = "idle" /\ Len(returned) < MaxRuns
    /\ ~input.blank
    /\ model_elements' = <<>>
    /\ nodes' = <<>>
    /\ artifacts' = <<>>
    /\ devices' = {}
    /\ deployment_relationships' = <<>>
    /\ Goto("entities")
    /\ UNCHANGED <<environments, compVars>>
    /\ ArchFrame

\* _extract_from_ner, _extract_nodes_pattern and _extract_devices_pattern;
\* self.node_keywords does not exist if the mappings were not loaded
DeploymentEntities ==
    /\ kind = "deployment" /\ pc = "entities"
    /\ LET ds == Deployment_extract_from_ner(Ds, input.ents)
       IN  IF ~tech_mappings.loaded
           THEN SetDs(ds) /\ Raises("AttributeError")
           ELSE /\ SetDs(_extract_devices_pattern(
                             _extract_nodes_pattern(ds, input), input))
                /\ Goto("relationships")
    /\ UNCHANGED <<model_elements, compVars>>
    /\ ArchFrame

DeploymentRelationships ==
    /\ kind = "deployment" /\ pc = "relationships"
    /\ SetDs(_extract_deployment_relationships(Ds, input))
    /\ Goto("build")
    /\ UNCHANGED <<model_elements, compVars>>
    /\ ArchFrame

\* _build_deployment_elements and "return self.model_elements"
DeploymentBuild ==
    /\ kind = "deployment" /\ pc = "build"
    /\ LET r == _build_deployment_elements(Ds, input)
       IN  /\ SetDs(r.ds)
           /\ model_elements' = model_elements \o r.elements
    /\ Returns(model_elements')
    /\ UNCHANGED compVars
    /\ ArchFrame

\* __init__ of the two extractors
ArchInit ==
    /\ \/ /\ kind = "component"
          /\ input \in ComponentNarrations
          /\ tech_mappings \in {ComponentMappings, FailedMappings}
          /\ nCfg = DefaultConfig
       \/ /\ kind = "deployment"
          /\ input \in DeploymentNarrations
          /\ tech_mappings \in {DeploymentMappings, FailedMappings}
          /\ nCfg \in {[DefaultConfig EXCEPT !.cross_collection_rules = r] :
                          r \in CrossRuleSets}
    /\ ConfigCached
    /\ NoOverlay
    /\ NoRuns
    /\ NormIdle
    /\ ExtractorInit

ArchNext ==
    \/ ComponentExtractBlank \/ ComponentExtractBegin \/ ComponentEntities
    \/ ComponentRelationships \/ ComponentRelationshipsNlp \/ ComponentBuild
    \/ DeploymentExtractBlank \/ DeploymentExtractBegin \/ DeploymentEntities
    \/ DeploymentRelationships \/ DeploymentBuild

Init == StoryInit \/ ArchInit

Next == StoryNext \/ ArchNext

Spec == Init /\ [][Next]_vars

(***************************************************************************)
(* The entity overlay of _process_text.  The text has MaxTextLen           *)
(* characters; the parser cuts it into tokens at doc.cuts; the tagger      *)
(* tokenizes on its own and reports spans by character offsets.            *)
(***************************************************************************)
MaxTextLen == 3
MaxSpans == 2

SpanOf(start, end, label) == [start |-> start, end |-> end, label |-> label]

\* ner_doc.ents: what a tagger can report for the text
TaggerSpans ==
    {sp \in [start : 0..(MaxTextLen - 1), end : 1..MaxTextLen,
             label : {"ACTOR", "CLASS"}] : sp.start < sp.end}

\* the Doc of the parsing model: its tokens and the entities its own
\* recognizer set
ParsedDocs ==
    {[len |-> MaxTextLen, cuts |-> c, parser_ents |-> e, ents |-> e] :
        c \in SUBSET (1..(MaxTextLen - 1)),
        e \in {{}, {SpanOf(0, MaxTextLen, "ORG")}}}

\* doc.char_span(start_char, end_char, label): None (<<>>) unless the span
\* starts where a token starts and ends where a token ends
char_span(doc, sp) ==
    IF /\ sp.start \in {0} \cup doc.cuts
       /\ sp.end \in doc.cuts \cup {doc.len}
    THEN <<sp>> ELSE <<>>

\* the loop over ner_doc.ents left at the first span that does not align
AlignedUntilFailure(doc, spans) ==
        Let({i \in DOMAIN spans : char_span(doc, spans[i]) = <<>>}, LAMBDA bad :
        IF bad = {} THEN spans
        ELSE SubSeq(spans, 1, Min(bad) - 1))

\* new_ents: "if span: new_ents.append(span)"
Aligned(doc, spans) ==
    SelectSeq(spans, LAMBDA sp : char_span(doc, sp) # <<>>)

Overlaps(a, b) == a.start < b.end /\ b.start < a.end

\* the setter of doc.ents raises ValueError if a token lies in two spans
Conflict(new_ents) ==
    \E i, j \in DOMAIN new_ents : i < j /\ Overlaps(new_ents[i], new_ents[j])

\* the setter of doc.ents with an older span dropped for a later one
LastSpanWins(new_ents) ==
    {new_ents[i] : i \in {k \in DOMAIN new_ents :
        \A j \in DOMAIN new_ents : j > k => ~Overlaps(new_ents[k], new_ents[j])}}

\* doc.ents = new_ents inside try/except: the assignment or nothing
SetEnts(doc, new_ents) ==
    IF Conflict(new_ents) THEN doc
    ELSE [doc EXCEPT !.ents = {new_ents[i] : i \in DOMAIN new_ents}]

\* BaseDiagramExtractor._process_text
Base_process_text(doc, spans) ==
        Let(Aligned(doc, spans), LAMBDA new_ents :
        IF new_ents # <<>> THEN SetEnts(doc, new_ents) ELSE doc)

\* ComponentDiagramExtractor._process_text
Component_process_text(doc, spans) == SetEnts(doc, Aligned(doc, spans))

OverlayInit ==
    /\ ovDoc \in ParsedDocs
    /\ ovSpans \in BSeq(TaggerSpans, MaxSpans)
    /\ ovPc = "start"
    /\ NoRuns
    /\ nCfg = DefaultConfig
    /\ ConfigCached
    /\ NormIdle
    /\ NoExtractor

OverlayFrame ==
    UNCHANGED <<nName, nCat, nCfg, nOut, nOut2, nTiers, nPc, cfgVars, ovSpans,
                concVars, ctlVars, baseVars, compVars, deplVars>>

\* doc = self._process_text(text) of the story extractors and of
\* DeploymentDiagramExtractor
BaseProcessText ==
    /\ ovPc = "start"
    /\ ovDoc' = Base_process_text(ovDoc, ovSpans)
    /\ ovPc' = "base"
    /\ OverlayFrame

\* doc = self._process_text(narration_text) of ComponentDiagramExtractor
ComponentProcessText ==
    /\ ovPc = "start"
    /\ ovDoc' = Component_process_text(ovDoc, ovSpans)
    /\ ovPc' = "component"
    /\ OverlayFrame

OverlayNext == BaseProcessText \/ ComponentProcessText

SpecOverlay == OverlayInit /\ [][OverlayNext]_vars

(***************************************************************************)
(* The class references of ClassDiagramExtractor.extract: a verb of the    *)
(* story with a direct object.  The subject is the actor User; the object  *)
(* names the class Document.                                               *)
(***************************************************************************)
MaxPhrases == 2

\* "token.lemma_ not in [...]"
skipped_lemmas == {"want", "be", "have", "can", "use", "make"}
\* "method_name.lower() in [...]": Association
association_verbs ==
    {"assign", "manage", "create", "have", "owns", "upload", "share", "send"}
\* the verbs that create a class on the fly
class_verbs ==
    {"assign", "manage", "create", "upload", "download", "share", "view"}

VerbTokens ==
    {[text |-> "upload", lemma |-> "upload"], [text |-> "own", lemma |-> "own"],
     [text |-> "owns", lemma |-> "own"], [text |-> "view", lemma |-> "view"],
     [text |-> "download", lemma |-> "download"],
     [text |-> "share", lemma |-> "share"], [text |-> "have", lemma |-> "have"]}

\* the object: known, it matches a class of current_classes; list_of, its
\* subtree reads "list of" or "collection of"; eligible, the test of the
\* on-the-fly heuristic (capitalized or longer than two letters, no
\* attribute pattern, not on the stop list)
ObjectPhrases == [known : BOOLEAN, list_of : BOOLEAN, eligible : BOOLEAN]

\* the kind of the edge actor -> class the verb and its object yield, None
\* if they yield none
ClassReferenceKind(verb, obj) ==
    IF verb.lemma \in skipped_lemmas THEN None
    ELSE     Let(IF verb.text \in association_verbs THEN "Association"
                 ELSE "Dependency", LAMBDA by_verb :
             Let(IF obj.list_of THEN "Aggregation" ELSE by_verb, LAMBDA rel_type :
             IF obj.known THEN rel_type
             ELSE IF obj.eligible /\ verb.text \in class_verbs
             THEN (IF verb.text \in {"view", "download"} THEN "Dependency"
                   ELSE "Association")
             ELSE None))

\* the calls the class reference makes on the registries
ClassReference(st, phrase) ==
        Let(ClassReferenceKind(phrase.verb, phrase.obj), LAMBDA rel_type :
        IF rel_type = None THEN st
        ELSE _add_relationship(
                 IF phrase.obj.known THEN st
                 ELSE _add_class(st, <<"D", "o", "c", "u", "m", "e", "n", "t">>, None, 1),
                 <<"U", "s", "e", "r">>, <<"D", "o", "c", "u", "m", "e", "n", "t">>, rel_type, 1))

PhraseInit ==
    /\ kind = "class"
    /\ input \in BSeq([verb : VerbTokens, obj : ObjectPhrases], MaxPhrases)
    /\ tech_mappings = NoMappings
    /\ nCfg = DefaultConfig
    /\ ConfigCached
    /\ NoOverlay
    /\ NoRuns
    /\ NormIdle
    /\ pc = "phrases"
    /\ idx = 0
    /\ returned = <<>>
    /\ hashSeed \in {0, 1}
    /\ model_elements = <<ClassElement(<<"U", "s", "e", "r">>, "actor", 1), ClassElement(<<"D", "o", "c", "u", "m", "e", "n", "t">>, None, 1)>>
    /\ found_classes = <<RegistryEntry(<<"U", "s", "e", "r">>, "actor"), RegistryEntry(<<"D", "o", "c", "u", "m", "e", "n", "t">>, None)>>
    /\ found_relationships = {}
    /\ components = <<>>
    /\ external_systems = {}
    /\ relationships = <<>>
    /\ interfaces = <<>>
    /\ packages = <<>>
    /\ ports = <<>>
    /\ nodes = <<>>
    /\ artifacts = <<>>
    /\ devices = {}
    /\ environments = {}
    /\ deployment_relationships = <<>>

\* the verb loop of extract(): the next verb with its object
PhraseStep ==
    /\ kind = "class" /\ pc = "phrases" /\ idx < Len(input)
    /\ StoryStep(ClassReference(St, input[idx + 1]))

\* "return self.model_elements"
PhraseReturn ==
    /\ kind = "class" /\ pc = "phrases" /\ idx = Len(input)
    /\ returned = <<>>
    /\ returned' = <<model_elements>>
    /\ UNCHANGED <<pc, idx>>
    /\ UNCHANGED <<kind, input, hashSeed, tech_mappings, baseVars>>
    /\ UNCHANGED <<normVars, compVars, deplVars>>

PhraseNext == PhraseStep \/ PhraseReturn

SpecPhrase == PhraseInit /\ [][PhraseNext]_vars

(***************************************************************************)
(* _resolve_coreference on the registries the tagger's entities leave.     *)
(* The narration has at most MaxEnts entities; the text to resolve is a    *)
(* string (it lies in no noun chunk).                                      *)
(***************************************************************************)
MaxEnts == 3

CorefEnts ==
    {NerEnt("COMPONENT", PaymentService), NerEnt("TECHNOLOGY", PayPal),
     NerEnt("EXTERNAL_SYSTEM", PayPal), NerEnt("EXTERNAL_SYSTEM", Stripe),
     NerEnt("COMPONENT", Dashboard)}

CorefTexts ==
    {PayPal, <<Lw("paypal")>>, Service, Stripe, <<Lw("payment")>>, Redis}

CorefInit ==
    /\ kind = "component"
    /\ input \in {[blank |-> FALSE, sents |-> <<>>, ents |-> e, deps |-> <<>>,
                    node |-> [text |-> t, chunk |-> NoName, propn |-> FALSE]] :
                       e \in BSeq(CorefEnts, MaxEnts), t \in CorefTexts}
    /\ tech_mappings = ComponentMappings
    /\ nCfg = DefaultConfig
    /\ ConfigCached
    /\ NoOverlay
    /\ NoRuns
    /\ NormIdle
    /\ ExtractorInit

CorefFrame ==
    UNCHANGED <<nName, nCat, nCfg, nOut2, nTiers, nPc, cfgVars, ovVars,
                concVars, kind, input, idx, returned, hashSeed, tech_mappings,
                baseVars, deplVars>>

\* _extract_from_ner fills the registries
CorefEntities ==
    /\ kind = "component" /\ pc = "idle" /\ "node" \in DOMAIN input
    /\ SetCs(Component_extract_from_ner(Cs, input.ents).cs)
    /\ pc' = "coref"
    /\ UNCHANGED nOut
    /\ CorefFrame

\* self._resolve_coreference(text)
CorefResolve ==
    /\ kind = "component" /\ pc = "coref"
    /\ nOut' = _resolve_coreference(Cs, input.node)
    /\ pc' = "resolved"
    /\ UNCHANGED compVars
    /\ CorefFrame

CorefNext == CorefEntities \/ CorefResolve

SpecCoref == CorefInit /\ [][CorefNext]_vars

(***************************************************************************)
(* Two concurrent runs.  Each of the two threads constructs a              *)
(* DeploymentDiagramExtractor on the model object the caller shares and    *)
(* calls extract() once; the threads interleave at the calls extract()     *)
(* makes.  They share the nlp object and the global _config_instance.      *)
(***************************************************************************)
Threads == {1, 2}

\* nlp.pipe_names of a loaded pipeline, before and after an extractor was
\* constructed on it
Pipelines ==
    {<<"tok2vec", "tagger", "parser", "ner">>,
     <<"tok2vec", "tagger", "parser", "ner", "sentencizer">>,
     <<"sentencizer", "ner">>}

\* BaseDiagramExtractor.__init__: nlp.add_pipe("sentencizer")
EnsureSentencizer(pipes) ==
    IF "sentencizer" \in SeqToSet(pipes) THEN pipes
    ELSE Append(pipes, "sentencizer")

\* the registries DeploymentDiagramExtractor.__init__ creates
FreshRegistries ==
    [ds |-> [nodes |-> <<>>, artifacts |-> <<>>, devices |-> {},
             environments |-> {}, deployment_relationships |-> <<>>],
     me |-> <<>>]

\* registries kept on the class: every instance would use the same ones
ClassAttributes(t) == 1

\* self.nodes = {}, ...: the registries are attributes of the instance the
\* thread constructed
InstanceAttributes(t) == t

\* extract(), the assignments before _extract_from_ner
RunBegin(reg) ==
    [ds |-> [reg.ds EXCEPT !.nodes = <<>>, !.artifacts = <<>>, !.devices = {},
                           !.deployment_relationships = <<>>],
     me |-> <<>>]

RunEntities(reg, narration) ==
    [reg EXCEPT !.ds =
        _extract_devices_pattern(
            _extract_nodes_pattern(
                Deployment_extract_from_ner(reg.ds, narration.ents), narration),
            narration)]

RunRelationships(reg, narration) ==
    [reg EXCEPT !.ds = _extract_deployment_relationships(reg.ds, narration)]

RunBuild(reg, narration) ==
        Let(_build_deployment_elements(reg.ds, narration), LAMBDA r :
        [ds |-> r.ds, me |-> reg.me \o r.elements])

\* what extract() returns on a new instance when no other thread runs
RunAlone(narration) ==
    RunBuild(RunRelationships(RunEntities(RunBegin(FreshRegistries), narration),
                              narration), narration).me

ThreadInit(narration) ==
    [pc |-> "new", input |-> narration, self |-> 0, saw_none |-> FALSE,
     out |-> <<>>]

ConcurrentInit ==
    /\ pipe_names \in Pipelines
    /\ conc \in [Threads -> {ThreadInit(n) :
                                n \in {NarrContainers, NarrBrowsers, NarrDevice}}]
    /\ store = [i \in Threads |-> FreshRegistries]
    /\ cfgFile = ValidFile(DefaultConfig)
    /\ cfgObj = 0
    /\ cfgMade = 0
    /\ cfgLog = <<>>
    /\ nErr = ""
    /\ nCfg = DefaultConfig
    /\ nName = NoName
    /\ nCat = "components"
    /\ nOut = NoName
    /\ nOut2 = NoName
    /\ nTiers = <<>>
    /\ nPc = "idle"
    /\ NoOverlay
    /\ kind = "deployment"
    /\ input = NarrBlank
    /\ tech_mappings = DeploymentMappings
    /\ ExtractorInit

ConcurrentFrame ==
    UNCHANGED <<nName, nCat, nCfg, nOut, nOut2, nTiers, nPc, nErr, cfgFile,
                cfgLog, ovVars, ctlVars, baseVars, compVars, deplVars>>

\* DeploymentDiagramExtractor(nlp, ner): __init__ of the base class and of
\* the class
Construct(t) ==
    /\ conc[t].pc = "new"
    /\ pipe_names' = EnsureSentencizer(pipe_names)
    /\ store' = [store EXCEPT ![InstanceAttributes(t)] = FreshRegistries]
    /\ conc' = [conc EXCEPT ![t].self = InstanceAttributes(t), ![t].pc = "idle"]
    /\ UNCHANGED <<cfgObj, cfgMade>>
    /\ ConcurrentFrame

\* one of the calls of extract() that work on the registries only
RunStep(t) ==
    /\ conc[t].pc \in {"idle", "entities", "relationships"}
    /\ store' = [store EXCEPT ![conc[t].self] =
                    CASE conc[t].pc = "idle" -> RunBegin(@)
                      [] conc[t].pc = "entities" -> RunEntities(@, conc[t].input)
                      [] conc[t].pc = "relationships" ->
                             RunRelationships(@, conc[t].input)]
    /\ conc' = [conc EXCEPT ![t].pc =
                    CASE conc[t].pc = "idle" -> "entities"
                      [] conc[t].pc = "entities" -> "relationships"
                      [] conc[t].pc = "relationships" -> "config"]
    /\ UNCHANGED <<pipe_names, cfgObj, cfgMade>>
    /\ ConcurrentFrame

\* get_config(): "if _config_instance is None"
RunGetConfig(t) ==
    /\ conc[t].pc = "config"
    /\ conc' = [conc EXCEPT ![t].saw_none = (cfgObj = 0), ![t].pc = "build"]
    /\ UNCHANGED <<pipe_names, store, cfgObj, cfgMade>>
    /\ ConcurrentFrame

\* get_config(): "_config_instance = NormalizationConfig()" and "return
\* _config_instance"; then the rest of _build_deployment_elements and
\* "return self.model_elements"
RunBuildStep(t) ==
    /\ conc[t].pc = "build"
    /\ IF conc[t].saw_none
       THEN cfgObj' = cfgMade + 1 /\ cfgMade' = cfgMade + 1
       ELSE UNCHANGED <<cfgObj, cfgMade>>
    /\ store' = [store EXCEPT ![conc[t].self] = RunBuild(@, conc[t].input)]
    /\ conc' = [conc EXCEPT ![t].out = store'[conc[t].self].me,
                            ![t].pc = "done"]
    /\ UNCHANGED pipe_names
    /\ ConcurrentFrame

ConcurrentNext ==
    \E t \in Threads :
        \/ Construct(t)
        \/ RunStep(t)
        \/ RunGetConfig(t)
        \/ RunBuildStep(t)

SpecConcurrent == ConcurrentInit /\ [][ConcurrentNext]_vars

(***************************************************************************)
(* Properties of extract().                                                *)
(***************************************************************************)
RelationshipTypes ==
    {"Relationship", "ComponentRelationship", "DeploymentRelationship"}

\* the (source, target, type) triple of a relationship element
RelKey(e) ==
    IF e.type = "Relationship"
    THEN <<e.data.class_a, e.data.class_b, e.data.type>>
    ELSE <<e.data.source, e.data.target, e.data.type>>

NoDuplicateEdges(list) ==
    \A i, j \in DOMAIN list :
        (i < j /\ list[i].type \in RelationshipTypes /\ list[j].type = list[i].type)
            => RelKey(list[i]) # RelKey(list[j])

\* the name compared without regard to letter case and spacing
FoldName(name) == StrLower(StrNoBlanks(name))

ClassElementsOf(name) ==
    {j \in DOMAIN model_elements :
        model_elements[j].type = "Class" /\ model_elements[j].data.name = name}

\* C1: a second extract() call on the same instance with the same input
\* returns the list the first call returned, element by element.
Cex_C1_RerunIdempotent ==
    Len(returned) >= 2 => returned[2] = returned[1]

\* C2: when an extract() call starts working, every registry of the
\* instance is empty, whatever the earlier calls left behind.
Cex_C2_RegistriesResetAtEntry ==
    [][(pc = "idle" /\ pc' # "idle") =>
           /\ found_classes' = <<>> /\ found_relationships' = {}
           /\ components' = <<>> /\ external_systems' = {}
           /\ interfaces' = <<>> /\ packages' = <<>> /\ ports' = <<>>
           /\ relationships' = <<>>
           /\ nodes' = <<>> /\ artifacts' = <<>> /\ devices' = {}
           /\ environments' = {} /\ deployment_relationships' = <<>>]_vars

\* C3: neither the list an extractor is building nor a list it has returned
\* holds two relationship elements with the same (source, target, type).
Thm_C3_NoDuplicateEdges ==
    /\ NoDuplicateEdges(model_elements)
    /\ \A r \in DOMAIN returned : NoDuplicateEdges(returned[r])

\* the Class extractor has processed a story that asks twice for the
\* relationship (Admin, FileUpload, Association), and the list holds it once
Wit_C3_TripleInsertedTwice ==
    /\ kind = "class" /\ pc = "stories" /\ idx > 0
    /\ input[idx] = StoryVariants
    /\ Cardinality({j \in DOMAIN model_elements :
                       /\ model_elements[j].type = "Relationship"
                       /\ model_elements[j].data.class_b
                              = <<"F", "i", "l", "e", "U", "p", "l", "o", "a", "d">>}) = 1

\* C4: no two keys of found_classes are equal when letter case and spacing
\* are disregarded.
Cex_C4_OneEntryPerName ==
    \A i, j \in DOMAIN found_classes :
        i # j => FoldName(found_classes[i].name) # FoldName(found_classes[j].name)

\* C5: every key of found_classes has exactly one Class element in
\* model_elements, and that element carries the registry's attribute and
\* method lists.
Thm_C5_RegistryMatchesElements ==
    \A i \in DOMAIN found_classes :
        /\ Cardinality(ClassElementsOf(found_classes[i].name)) = 1
        /\ \A j \in ClassElementsOf(found_classes[i].name) :
               /\ model_elements[j].data.attributes = found_classes[i].attributes
               /\ model_elements[j].data.methods = found_classes[i].methods

\* a class that has been given attributes and methods after it was added
Wit_C5_ClassWithMembers ==
    \E i \in DOMAIN found_classes :
        /\ found_classes[i].attributes # <<>>
        /\ found_classes[i].methods # <<>>

\* C6: a pattern match whose two endpoints are database-like, in a sentence
\* that names no service-like component, leaves no relationship between
\* these two endpoints in the component relationships.
Cex_C6_DatabasePairDropped ==
    [][(kind = "component" /\ pc = "relationships" /\ pc' = "nlp") =>
           \A d \in _extract_relationships(Cs, input).drops :
               ~\E i \in DOMAIN relationships' :
                    /\ relationships'[i].source = d[1]
                    /\ relationships'[i].target = d[2]]_vars

\* C11: a normalize_* call never returns a name while the configuration file
\* is missing or malformed and no configuration has ever been loaded; the
\* configuration error is raised instead
Cex_C11_LoadErrorBeforeName ==
    (nPc = "config" /\ LoadError(cfgFile) # "" /\ nErr = "" /\ nOut # NoName)
        => cfgObj > 0

\* the instance a get_config() call returned is the one the call before it
\* (get_config or reload_config) returned, and _config_instance holds it
CachedInstance ==
    /\ \A j \in 2..Len(cfgLog) :
          cfgLog[j].op = "get" =>
              /\ cfgLog[j].id = cfgLog[j - 1].id
              /\ cfgLog[j].cfg = cfgLog[j - 1].cfg
    /\ cfgLog # <<>> =>
          /\ cfgObj = cfgLog[Len(cfgLog)].id
          /\ nCfg = cfgLog[Len(cfgLog)].cfg

\* a reload_config() that returns has built a new instance from the file, and
\* a normalize_* call that consults the configuration computes its result
\* from the instance get_config() returned to it
UsesInstance ==
    /\ (Len(cfgLog') > Len(cfgLog) /\ cfgLog'[Len(cfgLog')].op = "reload") =>
          /\ cfgObj' > cfgMade
          /\ nCfg' = cfgFile.content[1]
    /\ (Len(cfgLog') > Len(cfgLog) /\ cfgLog'[Len(cfgLog')].op = "get"
            /\ Len(nTiers') > 1 /\ <<nName, nOut>> # <<nName', nOut'>>) =>
          nOut' = Normalize(nName', nCat', cfgLog'[Len(cfgLog')].cfg).out

\* C12: get_config() returns the same instance on every call until
\* reload_config() returns, and from then on every get_config() call and
\* every canonicalization call uses the instance that reload built
Thm_C12_CachedUntilReload == [](nPc = "config" => CachedInstance) /\ [][UsesInstance]_vars

Wit_C12_GetAfterReload ==
    /\ nPc = "config" /\ Len(cfgLog) = 3
    /\ cfgLog[1].op = "get" /\ cfgLog[2].op = "reload" /\ cfgLog[3].op = "get"
    /\ cfgLog[2].cfg # cfgLog[1].cfg
    /\ cfgLog[3].id = cfgLog[2].id
    /\ Len(nTiers) > 1

\* the story makes _extract_use_cases raise
RaisesInUseCases(story) ==
    "use_case" \in story.groq.keys /\ story.groq.actor = NonString

\* what UseCaseDiagramExtractor.extract returns for a batch
UseCaseBatch(stories) ==
    FoldSeq(LAMBDA st, story : _extract_use_cases(st, story, hashSeed),
            [me |-> <<>>, fc |-> <<>>, fr |-> {}], stories).me

\* C13: a story whose processing raises contributes no element: extract()
\* returns what it returns for the batch without that story
Cex_C13_FailingStorySkipped ==
    \A r \in DOMAIN returned :
        kind = "usecase" =>
            returned[r] = UseCaseBatch(SelectSeq(input,
                              LAMBDA story : ~RaisesInUseCases(story)))

\* C14: ComponentDiagramExtractor.extract and DeploymentDiagramExtractor.extract
\* return a list of elements for every narration that is not blank and every
\* set of tagger spans; no call is left by an exception
Cex_C14_NoExceptionEscapes ==
    kind \in {"component", "deployment"} =>
        \A r \in DOMAIN returned :
            \A i \in DOMAIN returned[r] : returned[r][i].type # "raise"

\* what _process_text returns for the Doc as the parser left it
Overlaid(variant, doc, spans) ==
    IF variant = "base"
    THEN Base_process_text([doc EXCEPT !.ents = doc.parser_ents], spans).ents
    ELSE Component_process_text([doc EXCEPT !.ents = doc.parser_ents], spans).ents

\* C15: a tagger span that does not align with the parser's tokens is left
\* out of doc.ents, and it removes no other span: doc.ents is what the
\* overlay of the aligned spans alone gives, which is all of them if no two
\* of them conflict
Thm_C15_MisalignedDroppedAlone ==
    ovPc \in {"base", "component"} =>
        /\ \A i \in DOMAIN ovSpans :
              char_span(ovDoc, ovSpans[i]) = <<>> => ovSpans[i] \notin ovDoc.ents
        /\ ovDoc.ents = Overlaid(ovPc, ovDoc,
                            SelectSeq(ovSpans,
                                LAMBDA sp : char_span(ovDoc, sp) # <<>>))
        /\ \A i \in DOMAIN ovSpans :
              (char_span(ovDoc, ovSpans[i]) # <<>>
                   /\ ~Conflict(Aligned(ovDoc, ovSpans)))
                  => ovSpans[i] \in ovDoc.ents

Wit_C15_OneOfTwoAligned ==
    /\ ovPc \in {"base", "component"}
    /\ Len(ovSpans) = 2
    /\ char_span(ovDoc, ovSpans[1]) = <<>>
    /\ char_span(ovDoc, ovSpans[2]) # <<>>
    /\ ovDoc.ents = {ovSpans[2]}

DiscoveredActors(stories) ==
    UNION {SeqToSet(ScanTokens(stories[k].tokens,
                               ActorsOfRole(ActorsOfEnts(stories[k].ents),
                                            stories[k].role),
                               ClassesOfEnts(stories[k].ents)).actors) :
           k \in DOMAIN stories}

ActorsIn(list) ==
    {list[i].data.name : i \in {j \in DOMAIN list :
        list[j].type = "Class" /\ list[j].data.stereotype = "actor"}}

InheritsFromUser(list) ==
    {list[i].data.class_a : i \in {j \in DOMAIN list :
        /\ list[j].type = "Relationship"
        /\ list[j].data.type = "Inheritance"
        /\ list[j].data.class_b = <<"U", "s", "e", "r">>}}

\* C17: the returned list holds an Inheritance edge X -> User exactly for the
\* actors X other than User and System, and only if User was discovered as
\* an actor in some story of the batch
Cex_C17_InheritanceOnlyFromActorUser ==
    kind = "class" =>
        \A r \in DOMAIN returned :
            InheritsFromUser(returned[r]) =
                IF <<"U", "s", "e", "r">> \in DiscoveredActors(input)
                THEN ActorsIn(returned[r]) \ {<<"U", "s", "e", "r">>, <<"S", "y", "s", "t", "e", "m">>}
                ELSE {}

\* _build_deployment_elements has returned and no later extract() has
\* reset the registries
Built ==
    /\ kind = "deployment" /\ pc = "idle" /\ returned # <<>> /\ ~input.blank
    /\ \A i \in DOMAIN returned[Len(returned)] :
           returned[Len(returned)][i].type # "raise"

BrowserNames(S) == {d \in S : AnyIn({<<"b", "r", "o", "w", "s", "e", "r">>}, d)}

\* the names of the elements of one type in a returned list
EmittedAs(type, list) ==
    {list[i].data.name : i \in {j \in DOMAIN list : list[j].type = type}}

\* C18: once the deployment elements are built, the only device whose name
\* contains 'browser' is 'Web Browser', and at most one Device element
\* with such a name is emitted
Thm_C18_OnlyWebBrowser ==
    Built =>
        /\ BrowserNames(devices) \subseteq {WebBrowser}
        /\ BrowserNames(EmittedAs("Device", returned[Len(returned)]))
               \subseteq {WebBrowser}
        /\ Cardinality({i \in DOMAIN returned[Len(returned)] :
                /\ returned[Len(returned)][i].type = "Device"
                /\ AnyIn({<<"b", "r", "o", "w", "s", "e", "r">>}, returned[Len(returned)][i].data.name)}) <= 1

\* a browser variant the tagger named as a device is replaced by
\* 'Web Browser'
Wit_C18_VariantConsolidated ==
    /\ Built
    /\ WebBrowser \in devices
    /\ \E e \in DOMAIN input.ents :
           /\ input.ents[e].label = "DEVICE"
           /\ AnyIn({<<"b", "r", "o", "w", "s", "e", "r">>}, input.ents[e].text)
           /\ input.ents[e].text # WebBrowser
           /\ input.ents[e].text \notin devices
           /\ ~HasKey(nodes, input.ents[e].text)

\* the collections some rule of the table prefers for a name
PreferredFor(name) ==
    {nCfg.cross_collection_rules[r].preferred :
        r \in {q \in DOMAIN nCfg.cross_collection_rules :
                  \E p \in DOMAIN nCfg.cross_collection_rules[q].patterns :
                      AnyIn({nCfg.cross_collection_rules[q].patterns[p]}, name)}}

\* C19: once the deployment elements are built, a name that matches a
\* pattern of a cross-collection rule is in exactly one of nodes and
\* devices, the one a rule that matches it prefers, and it is not emitted
\* both as a Node and as a Device
Cex_C19_MatchedNameInOneCollection ==
    Built =>
        \A name \in SeqToSet(Keys(nodes)) \cup devices :
            PreferredFor(name) # {} =>
                /\ ~(HasKey(nodes, name) /\ name \in devices)
                /\ (IF HasKey(nodes, name) THEN "nodes" ELSE "devices")
                       \in PreferredFor(name)
                /\ ~(/\ name \in EmittedAs("Node", returned[Len(returned)])
                     /\ name \in EmittedAs("Device", returned[Len(returned)]))

\* the parent of a node in a containment map, NoName if it has none
ParentIn(map, name) ==
    IF HasKey(map, name) THEN map[KeyIndex(map, name)].parent ELSE NoName

\* the node reached from name by following the map k times
RECURSIVE Ancestor(_, _, _)
Ancestor(map, name, k) ==
    IF k = 0 \/ name = NoName THEN name
    ELSE Ancestor(map, ParentIn(map, name), k - 1)

Acyclic(map) ==
    \A i \in DOMAIN map :
        \A k \in 1..Len(map) : Ancestor(map, map[i].name, k) # map[i].name

\* C20: the child-to-parent containment map that _build_deployment_elements
\* builds from the extracted nodes and the narration has no cycle
Cex_C20_ContainmentAcyclic ==
    (kind = "deployment" /\ pc = "build") =>
        Acyclic(ContainmentMap(Ds, input))

\* the elements of one type of a returned list, as a sequence
ElementsOf(type, list) == SelectSeq(list, LAMBDA e : e.type = type)

\* C21: the list ComponentDiagramExtractor.extract returns holds at most
\* one ComponentRelationship per ordered (source, target) pair, and exactly
\* one for the pair a sentence 'X connects to Y' states
Cex_C21_OneEdgePerInteraction ==
    (kind = "component" /\ pc = "idle" /\ returned # <<>>) =>
        LET edges == ElementsOf("ComponentRelationship", returned[1])
        IN  /\ \A i, j \in DOMAIN edges :
                   (/\ edges[i].data.source = edges[j].data.source
                    /\ edges[i].data.target = edges[j].data.target) => i = j
            /\ input = NarrService =>
                   \E i \in DOMAIN edges :
                       /\ edges[i].data.source = PaymentService
                       /\ edges[i].data.target = PostgreSQL

\* C22: a thread that runs extract() on an instance of its own returns,
\* whatever the other thread does in between, the list extract() returns
\* for its narration when it runs alone
Thm_C22_ConcurrentRunsIsolated ==
    \A t \in DOMAIN conc :
        conc[t].pc = "done" => conc[t].out = RunAlone(conc[t].input)

\* both threads have returned, for different narrations, and each of them
\* found _config_instance unset and constructed a NormalizationConfig
Wit_C22_BothDone ==
    /\ conc # <<>>
    /\ \A t \in DOMAIN conc : conc[t].pc = "done"
    /\ conc[1].input # conc[2].input
    /\ conc[1].out # conc[2].out
    /\ cfgMade = 2

\* C23: the pipeline of the model object the caller passes in stays as
\* the caller built it
Cex_C23_PipelineUnchanged ==
    [][conc # <<>> => pipe_names' = pipe_names]_vars

\* the known entities: components, interfaces and external systems
KnownNames == SeqToSet(Keys(components)) \cup SeqToSet(Keys(interfaces))
                  \cup external_systems

\* exact match 3, suffix match 2, substring match 1
MatchScore(name, text) ==
    IF Spell(name) = Spell(text) THEN 3
    ELSE IF StrEndsWith(Spell(name), Spell(text)) THEN 2
    ELSE IF In(text, name) \/ In(name, text) THEN 1
    ELSE 0

BestMatches(text) ==
    {n \in KnownNames :
        /\ MatchScore(n, text) > 0
        /\ \A m \in KnownNames : MatchScore(m, text) <= MatchScore(n, text)}

\* C24: _resolve_coreference returns the one known entity with the highest
\* score and nothing when several entities tie or none matches; a text
\* equal to a known entity's name, ignoring case, resolves to that entity
Cex_C24_HighestScoreWins ==
    pc = "resolved" =>
        /\ nOut = IF Cardinality(BestMatches(input.node.text)) = 1
                  THEN CHOOSE n \in BestMatches(input.node.text) : TRUE
                  ELSE NoName
        /\ \A n \in KnownNames :
               (/\ Spell(n) = Spell(input.node.text)
                /\ \A m \in KnownNames \ {n} : Spell(m) # Spell(n)) => nOut = n

\* the kind the specification gives for a governing verb
KindByVerb(lemma) ==
    IF lemma \in {"assign", "manage", "create", "have", "own", "upload",
                  "share", "send"}
    THEN "Association" ELSE "Dependency"

\* the kinds of the edges User -> Document emitted so far
EdgeKinds ==
    {model_elements[i].data.type :
        i \in {j \in DOMAIN model_elements :
                  /\ model_elements[j].type = "Relationship"
                  /\ model_elements[j].data.class_a = <<"U", "s", "e", "r">>
                  /\ model_elements[j].data.class_b = <<"D", "o", "c", "u", "m", "e", "n", "t">>}}

\* C25: the edges from the actor to the class have the kind of the
\* governing verb, Association for assign, manage, create, have, own,
\* upload, share, send and Dependency for view and download; a verb whose
\* object matches a known class yields its kind, and no other kind is
\* emitted for the pair
Cex_C25_KindByGoverningVerb ==
    pc = "phrases" =>
        /\ EdgeKinds \subseteq
               {KindByVerb(input[i].verb.lemma) : i \in 1..idx}
        /\ \A i \in 1..idx :
               (input[i].obj.known /\ input[i].verb.lemma \notin skipped_lemmas)
                   => KindByVerb(input[i].verb.lemma) \in EdgeKinds

\* the actors of the common-actor vocabulary a story mentions whose name is,
\* letter case aside, a proper substring of the story's primary actor
SubstringActors(story) ==
    {common_actors[i] : i \in {j \in story.mentions :
        /\ Len(common_actors[j]) < Len(StrStrip(story.role))
        /\ StrContains(StrLower(StrStrip(story.role)),
                       StrLower(common_actors[j]))}}

\* the actors linked to a use case in a returned list
LinkedTo(use_case_name, list) ==
    {list[i].data.class_a : i \in {j \in DOMAIN list :
        /\ list[j].type = "Relationship"
        /\ list[j].data.class_b = use_case_name}}

\* C26: a vocabulary actor whose name is a substring of the primary actor of
\* the story, in whatever letter case the primary actor is written, is not
\* linked to the use case of the story and is not added as an actor Class
\* by that story
Cex_C26_SubstringActorNotLinked ==
    (kind = "usecase" /\ pc = "idle" /\ returned # <<>>) =>
        \A k \in DOMAIN input :
            (input[k].groq = NoGroq /\ input[k].want # NoName) =>
                \A a \in SubstringActors(input[k]) :
                    _normalize_name(a) \notin
                        LinkedTo(StrStrip(_clean_use_case_name(input[k].want)),
                                 returned[1])

\* C27: the component registry holds no two names such that one is, letter
\* case aside, a substring of the other
Cex_C27_NoNestedComponentNames ==
    kind = "component" =>
        \A i, j \in DOMAIN components :
            In(components[i].name, components[j].name) => i = j

\* the registries hold a target the device access step accepts: an artifact
\* or a node whose name contains 'server'
AccessTargets ==
    {n \in SeqToSet(Keys(artifacts)) : TRUE}
    \cup {n \in SeqToSet(Keys(nodes)) : AnyIn({<<"s", "e", "r", "v", "e", "r">>}, n)}

\* the names that are the source of a DeploymentRelationship of a list
SourcesIn(list) ==
    {list[i].data.source : i \in {j \in DOMAIN list :
        list[j].type = "DeploymentRelationship"}}

\* C28: when the narration has yielded a device and a possible target, every
\* Device element of the returned list is the source of a
\* DeploymentRelationship element of that list
Cex_C28_DevicesHaveAccess ==
    (Built /\ AccessTargets # {}) =>
        EmittedAs("Device", returned[Len(returned)])
            \subseteq SourcesIn(returned[Len(returned)])

\* the endpoints of the edges of one type in a returned list
EndpointsIn(type, a, b, list) ==
    UNION {{list[i].data[a], list[i].data[b]} :
              i \in {j \in DOMAIN list : list[j].type = type}}

\* C29: in the list ClassDiagramExtractor.extract returns both endpoints of
\* every Relationship element are names of Class elements of the list, and
\* in the list ComponentDiagramExtractor.extract returns both endpoints of
\* every ComponentRelationship element are names of Component elements of
\* the list
Cex_C29_ReferentialIntegrity ==
    (pc = "idle" /\ returned # <<>>) =>
        /\ kind = "class" =>
               EndpointsIn("Relationship", "class_a", "class_b",
                           returned[Len(returned)])
                   \subseteq EmittedAs("Class", returned[Len(returned)])
        /\ kind = "component" =>
               EndpointsIn("ComponentRelationship", "source", "target",
                           returned[Len(returned)])
                   \subseteq EmittedAs("Component", returned[Len(returned)])

\* extract() of the use case extractor in a process whose hash seed is seed
UseCaseRunWith(stories, seed) ==
    FoldSeq(LAMBDA st, story : _extract_use_cases(st, story, seed),
            [me |-> <<>>, fc |-> <<>>, fr |-> {}], stories).me

\* the names of the elements of a list that satisfy Test, in list order
NamesInOrder(list, Test(_)) ==
    Let(SelectSeq(list, Test), LAMBDA es : [i \in DOMAIN es |-> es[i].data.name])

IsDevice(e) == e.type = "Device"
IsExternal(e) == e.type = "Component" /\ e.data.stereotype = "<<external>>"

\* C30: the list extract() returns is the list a fresh run of a process with
\* any other hash seed returns for the same input: the use case extractor
\* returns the same list under both seeds, and the Device elements and the
\* external Component elements come in the order a process with seed 0 emits
\* them
Cex_C30_OrderIndependentOfHashSeed ==
    (pc = "idle" /\ returned # <<>>) =>
        /\ kind = "usecase" =>
               \A seed \in {0, 1} :
                   returned[Len(returned)] = UseCaseRunWith(input, seed)
        /\ kind = "deployment" =>
               Let(NamesInOrder(returned[Len(returned)], IsDevice), LAMBDA ns :
                   ns = IterNames(SeqToSet(ns), 0))
        /\ kind = "component" =>
               Let(NamesInOrder(returned[Len(returned)], IsExternal), LAMBDA ns :
                   ns = IterNames(SeqToSet(ns), 0))

=============================================================================
